---- MODULE Spec2Model ----
(***************************************************************************)
(* A model of tiny-http: one plain-TCP client connection, its connection   *)
(* driver (ClientConnection), the chains of sequential read and write      *)
(* slots (util/sequential.rs), the Request objects and the handler threads *)
(* that answer them.                                                       *)
(*                                                                         *)
(* The read stream is described by what the client has sent beyond the     *)
(* read position; the bytes of a body are identified by their offset from  *)
(* the end of the header block.                                            *)
(***************************************************************************)
EXTENDS Integers, Sequences, FiniteSets, TLC

(***************************************************************************)
(* Option values.                                                          *)
(***************************************************************************)
None == <<>>
Some(x) == <<x>>
is_some(o) == o # <<>>
unwrap(o) == o[1]

(***************************************************************************)
(* Strings: the case conversions and substring tests of the code, over the *)
(* header names and values the model's clients send.                      *)
(***************************************************************************)
to_ascii_lowercase(s) ==
    CASE s = "Transfer-Encoding" -> "transfer-encoding"
      [] s = "Content-Length"    -> "content-length"
      [] s = "CONTENT-LENGTH"    -> "content-length"
      [] s = "Expect"            -> "expect"
      [] s = "Connection"        -> "connection"
      [] s = "Host"              -> "host"
      [] s = "Close"             -> "close"
      [] s = "Upgrade"           -> "upgrade"
      [] s = "Keep-Alive"        -> "keep-alive"
      [] s = "keep-alive, Upgrade" -> "keep-alive, upgrade"
      [] s = "100-Continue"      -> "100-continue"
      [] s = "TE"                -> "te"
      [] s = "Chunked"           -> "chunked"
      [] s = "Identity"          -> "identity"
      [] s = "Date"              -> "date"
      [] s = "Server"            -> "server"
      [] s = "Accept-Ranges"     -> "accept-ranges"
      [] s = "Content-Range"     -> "content-range"
      [] s = "Trailer"           -> "trailer"
      [] s = "TRAILER"           -> "trailer"
      [] s = "Content-Type"      -> "content-type"
      [] OTHER                   -> s

eq_ignore_ascii_case(a, b) == to_ascii_lowercase(a) = to_ascii_lowercase(b)

\* str::contains(pat) for the patterns the code looks for in a Connection value
contains(s, pat) ==
    pat \in (CASE s = "close"               -> {"close"}
               [] s = "upgrade"             -> {"upgrade"}
               [] s = "keep-alive"          -> {"keep-alive"}
               [] s = "keep-alive, upgrade" -> {"keep-alive", "upgrade"}
               [] s = "Close"               -> {}
               [] s = "Upgrade"             -> {}
               [] s = "Keep-Alive"          -> {}
               [] s = "keep-alive, Upgrade" -> {"keep-alive"}
               [] OTHER                     -> {})

\* <usize as FromStr>::from_str(..).ok()
from_str_usize(s) ==
    CASE s = "0"    -> Some(0)
      [] s = "2"    -> Some(2)
      [] s = "3"    -> Some(3)
      [] s = "5"    -> Some(5)
      [] s = "1024" -> Some(1024)
      [] s = "1025" -> Some(1025)
      [] OTHER      -> None

(***************************************************************************)
(* Headers are <<field, value>> pairs; HTTP versions <<major, minor>>.     *)
(***************************************************************************)
equiv(field, name) == eq_ignore_ascii_case(name, field)

\* headers.iter().find(|h| h.field.equiv(name)).map(|h| h.value)
RECURSIVE find(_, _)
find(headers, name) ==
    IF headers = <<>> THEN None
    ELSE IF equiv(Head(headers)[1], name) THEN Some(Head(headers)[2])
    ELSE find(Tail(headers), name)

\* the derived lexicographic order of HTTPVersion
version_gt(a, b) == a[1] > b[1] \/ (a[1] = b[1] /\ a[2] > b[2])

Min(a, b) == IF a < b THEN a ELSE b

(***************************************************************************)
(* Bounds of the model.                                                    *)
(***************************************************************************)
\* header blocks the client sends on the connection
MaxReq == 3
MaxBodyReq == 2
\* as_reader calls a handler makes on one request
MaxAsReader == 2
\* reads of a single byte a handler makes on one body
MaxShortReads == 1
\* raw writes a handler makes on a writer obtained from into_writer
MaxRawWrites == 1
\* header lines of the requests of the request-construction harness
MaxHeaders == 3

\* content_length <= 1024: the body is read into a buffer at construction
BufferThreshold == 1024

Threads == {"h1", "h2"}

\* util/task_pool.rs: the threads a pool may create in all, the tasks given
\* to spawn, the pool sizes tried
MaxWorkers == 5
MaxTasks == 2
Workers == 1..MaxWorkers
Tasks == 1..MaxTasks
PoolSizes == {1, 2}
MIN_THREADS == 4
MaxSlots == 2 * MaxReq + 1

(***************************************************************************)
(* request.rs: new_request.  `sent` is the number of bytes the client      *)
(* sends after the header block before it stops.  A reader is              *)
(* [kind, lo, size]: lo is the offset, counted from the end of the header  *)
(* block, of the next byte it yields, and size the number of bytes it has  *)
(* still to yield (cursor, equal).  `consumed` is the number of bytes the  *)
(* construction itself reads from source_data.                             *)
(***************************************************************************)
transfer_encoding(headers) == find(headers, "Transfer-Encoding")

\* a content_length that reads the Content-Length header whatever else is there
content_length_kept(headers) ==
    LET h == find(headers, "Content-Length")
    IN  IF is_some(h) THEN from_str_usize(unwrap(h)) ELSE None

content_length(headers) ==
    IF is_some(transfer_encoding(headers)) THEN None
    ELSE LET h == find(headers, "Content-Length")
         IN  IF is_some(h) THEN from_str_usize(unwrap(h)) ELSE None

\* "none" | "100-continue" | "failed"
expects_continue(headers) ==
    LET h == find(headers, "Expect")
    IN  IF ~is_some(h) THEN "none"
        ELSE IF eq_ignore_ascii_case(unwrap(h), "100-continue") THEN "100-continue"
        ELSE "failed"

connection_upgrade(headers) ==
    LET h == find(headers, "Connection")
    IN  is_some(h) /\ contains(to_ascii_lowercase(unwrap(h)), "upgrade")

NoReader == [kind |-> "dropped", lo |-> 0, size |-> 0]
Reader(kind, size) == [kind |-> kind, lo |-> 0, size |-> size]

\* readers that all keep source_data, also the empty and the buffered ones
holds_always(reader) == TRUE

\* the readers that keep source_data, the connection's read slot
holds_source(reader) == reader.kind \in {"raw", "equal", "chunked"}

\* a choice of reader that looks at Transfer-Encoding before Connection: upgrade
choose_reader_te_first(headers, sent) ==
    LET cl == content_length(headers)
        ec == expects_continue(headers) = "100-continue"
    IN  IF is_some(transfer_encoding(headers)) THEN Reader("chunked", 0)
        ELSE IF connection_upgrade(headers) THEN Reader("raw", 0)
        ELSE IF is_some(cl) THEN
            IF unwrap(cl) = 0 THEN Reader("empty", 0)
            ELSE IF unwrap(cl) <= BufferThreshold /\ ~ec THEN
                IF sent < unwrap(cl) THEN Reader("io_error", 0)
                ELSE Reader("cursor", unwrap(cl))
            ELSE Reader("equal", unwrap(cl))
        ELSE Reader("empty", 0)

\* a choice of reader whose buffer takes every byte the client has sent
choose_reader_all_sent(headers, sent) ==
    LET cl == content_length(headers)
        ec == expects_continue(headers) = "100-continue"
    IN  IF connection_upgrade(headers) THEN Reader("raw", 0)
        ELSE IF is_some(cl) THEN
            IF unwrap(cl) = 0 THEN Reader("empty", 0)
            ELSE IF unwrap(cl) <= BufferThreshold /\ ~ec THEN
                IF sent < unwrap(cl) THEN Reader("io_error", 0)
                ELSE Reader("cursor", sent)
            ELSE Reader("equal", unwrap(cl))
        ELSE IF is_some(transfer_encoding(headers)) THEN Reader("chunked", 0)
        ELSE Reader("empty", 0)

choose_reader(headers, sent) ==
    LET cl == content_length(headers)
        ec == expects_continue(headers) = "100-continue"
    IN  IF connection_upgrade(headers) THEN Reader("raw", 0)
        ELSE IF is_some(cl) THEN
            IF unwrap(cl) = 0 THEN Reader("empty", 0)
            ELSE IF unwrap(cl) <= BufferThreshold /\ ~ec THEN
                IF sent < unwrap(cl) THEN Reader("io_error", 0)
                ELSE Reader("cursor", unwrap(cl))
            ELSE Reader("equal", unwrap(cl))
        ELSE IF is_some(transfer_encoding(headers)) THEN Reader("chunked", 0)
        ELSE Reader("empty", 0)

new_request(version, headers, sent) ==
    LET reader == choose_reader(headers, sent)
    IN  IF expects_continue(headers) = "failed"
        THEN [ok |-> FALSE, err |-> "ExpectationFailed", consumed |-> 0]
        ELSE IF reader.kind = "io_error"
        THEN [ok |-> FALSE, err |-> "CreationIoError", consumed |-> sent]
        ELSE [ok |-> TRUE,
              data_reader |-> reader,
              http_version |-> version,
              headers |-> headers,
              body_length |-> content_length(headers),
              must_send_continue |-> (expects_continue(headers) = "100-continue"),
              consumed |-> IF reader.kind = "cursor" THEN reader.size ELSE 0]

(***************************************************************************)
(* client.rs: the keep-alive decision of ClientConnection::next.           *)
(***************************************************************************)
\* a keep-alive decision that never ends the connection
connection_never_ends(version, headers) == FALSE

connection_ends(version, headers) ==
    LET h == find(headers, "Connection")
        val == to_ascii_lowercase(unwrap(h))
    IN  IF is_some(h)
        THEN \/ contains(val, "close")
             \/ contains(val, "upgrade")
             \/ (~contains(val, "keep-alive") /\ version = <<1, 0>>)
        ELSE version = <<1, 0>>

(***************************************************************************)
(* response.rs: raw_print, as the sequence of chunks it writes.  A response*)
(* is [status, len]; the header block is one chunk, the body another.      *)
(***************************************************************************)
Chunk(slot, status, part) == [slot |-> slot, status |-> status, part |-> part]

Response(status, len) == [status |-> status, len |-> len]

\* a raw_print that writes a body chunk whatever the response
print_with_body(slot, response, do_not_send_body) ==
    <<Chunk(slot, response.status, "head"), Chunk(slot, response.status, "body")>>

raw_print(slot, response, do_not_send_body) ==
    LET dns == \/ do_not_send_body
               \/ response.status \in 100..199
               \/ response.status \in {204, 304}
    IN  <<Chunk(slot, response.status, "head")>> \o
        (IF ~dns /\ response.len >= 1
         THEN <<Chunk(slot, response.status, "body")>> ELSE <<>>)

\* the responses a handler passes to respond: Response::from_string("hello world")
UserResponses == {Response(200, 11)}

(***************************************************************************)
(* response.rs: a Response and the message raw_print writes for it.  The   *)
(* reader of a Response is the number of bytes it yields.  A TE value is   *)
(* the list of its comma-separated elements, each <<token, params>> with   *)
(* params the list of the strings that follow its semicolons.              *)
(***************************************************************************)
\* enum TransferEncoding
Identity == "Identity"
Chunked == "Chunked"

\* <TransferEncoding as FromStr>::from_str(..).ok()
TransferEncoding_from_str(input) ==
    IF eq_ignore_ascii_case(input, "identity") THEN Some(Identity)
    ELSE IF eq_ignore_ascii_case(input, "chunked") THEN Some(Chunked)
    ELSE None

\* str::trim
trim(s) ==
    CASE s = " chunked"  -> "chunked"
      [] s = " identity" -> "identity"
      [] OTHER           -> s

\* a parameter of an element: the f32 after "q=", in thousandths, when the
\* parameter starts with "q=" after trim_left and the rest parses
q_from_str(param) ==
    CASE param = "q=0"    -> Some(0)
      [] param = "q=0.5"  -> Some(500)
      [] param = " q=0.8" -> Some(800)
      [] param = "q=1"    -> Some(1000)
      [] OTHER            -> None

\* the loop over the parameters of one element: the first q that parses
RECURSIVE quality(_)
quality(params) ==
    IF params = <<>> THEN 1000
    ELSE IF is_some(q_from_str(Head(params))) THEN unwrap(q_from_str(Head(params)))
    ELSE quality(Tail(params))

\* util::parse_header_value
parse_header_value(input) ==
    [i \in 1..Len(input) |-> <<trim(input[i][1]), quality(input[i][2])>>]

\* parse.sort_by(|a, b| b.1.partial_cmp(&a.1)): a stable sort, highest q first
RECURSIVE insert_by_q(_, _)
insert_by_q(sorted, e) ==
    IF sorted = <<>> THEN <<e>>
    ELSE IF Head(sorted)[2] >= e[2] THEN <<Head(sorted)>> \o insert_by_q(Tail(sorted), e)
    ELSE <<e>> \o sorted

RECURSIVE sort_by_q(_)
sort_by_q(parse) ==
    IF parse = <<>> THEN <<>>
    ELSE insert_by_q(sort_by_q(SubSeq(parse, 1, Len(parse) - 1)), parse[Len(parse)])

\* the loop over the sorted elements: q <= 0 is skipped, and so is an
\* encoding from_str does not know
RECURSIVE first_supported(_)
first_supported(parse) ==
    IF parse = <<>> THEN None
    ELSE IF Head(parse)[2] <= 0 THEN first_supported(Tail(parse))
    ELSE IF is_some(TransferEncoding_from_str(Head(parse)[1]))
    THEN TransferEncoding_from_str(Head(parse)[1])
    ELSE first_supported(Tail(parse))

chunks_threshold == 32768

\* a choice that follows the TE header only when it leads to chunked
choose_chunked_or_by_length(request_headers, http_version, entity_length, has_additional_headers) ==
    IF ~version_gt(http_version, <<1, 0>>) THEN Identity
    ELSE LET te == find(request_headers, "TE")
             user_request == IF is_some(te)
                             THEN first_supported(sort_by_q(parse_header_value(unwrap(te))))
                             ELSE None
         IN  IF user_request = Some(Chunked) THEN Chunked
             ELSE IF entity_length = None \/ unwrap(entity_length) >= chunks_threshold
             THEN Chunked
             ELSE Identity

choose_transfer_encoding(request_headers, http_version, entity_length, has_additional_headers) ==
    IF ~version_gt(http_version, <<1, 0>>) THEN Identity
    ELSE LET te == find(request_headers, "TE")
             user_request == IF is_some(te)
                             THEN first_supported(sort_by_q(parse_header_value(unwrap(te))))
                             ELSE None
         IN  IF is_some(user_request) THEN unwrap(user_request)
             ELSE IF has_additional_headers THEN Chunked
             ELSE IF entity_length = None \/ unwrap(entity_length) >= chunks_threshold
             THEN Chunked
             ELSE Identity

\* an add_header that stores whatever header it is given
add_header_unfiltered(self, header) ==
    [self EXCEPT !.headers = Append(self.headers, header)]

\* Response::add_header
add_header(self, header) ==
    IF \/ equiv(header[1], "Accept-Ranges")
       \/ equiv(header[1], "Connection")
       \/ equiv(header[1], "Content-Range")
       \/ equiv(header[1], "Trailer")
       \/ equiv(header[1], "Transfer-Encoding")
       \/ equiv(header[1], "Upgrade")
    THEN self
    ELSE IF equiv(header[1], "Content-Length")
    THEN IF is_some(from_str_usize(header[2]))
         THEN [self EXCEPT !.data_length = from_str_usize(header[2])]
         ELSE self
    ELSE [self EXCEPT !.headers = Append(self.headers, header)]

RECURSIVE add_headers(_, _)
add_headers(self, headers) ==
    IF headers = <<>> THEN self
    ELSE add_headers(add_header(self, Head(headers)), Tail(headers))

\* Response::new, without additional_headers
Response_new(status_code, headers, data, data_length) ==
    add_headers([reader |-> data, status_code |-> status_code, headers |-> <<>>,
                 data_length |-> data_length], headers)

\* Response::from_string, Response::empty
from_string(len) ==
    Response_new(200, <<<<"Content-Type", "text/plain; charset=UTF-8">>>>, len, Some(len))
empty(status_code) == Response_new(status_code, <<>>, 0, Some(0))

has_header(headers, name) == is_some(find(headers, name))

\* the body as raw_print writes it: no byte for a response that must not
\* carry one; the chunks of the Encoder and its last chunk; or the bytes an
\* EqualReader of data_length bytes gets out of the reader
message_body(do_not_send_body, encoding, reader, data_length) ==
    IF do_not_send_body THEN <<>>
    ELSE IF encoding = Some(Chunked)
    THEN (IF reader >= 1 THEN <<[part |-> "chunk", len |-> reader]>> ELSE <<>>)
         \o <<[part |-> "last-chunk", len |-> 0]>>
    ELSE IF encoding = Some(Identity)
    THEN (IF unwrap(data_length) >= 1 /\ reader >= 1
          THEN <<[part |-> "data", len |-> Min(reader, unwrap(data_length))]>>
          ELSE <<>>)
    ELSE <<>>

\* a raw_print that lets every status code carry a body
body_allowed(status_code) == FALSE

\* raw_print: status code 1xx, 204 and 304 must not include a body
must_not_include_body(status_code) ==
    status_code \in 100..199 \/ status_code \in {204, 304}

\* Response::raw_print, as the message it writes: status line, header block, body
message(self, http_version, request_headers, do_not_send_body, upgrade) ==
    LET chosen == choose_transfer_encoding(request_headers, http_version,
                                           self.data_length, FALSE)
        encoding == IF is_some(upgrade) THEN None ELSE Some(chosen)
        with_date == IF has_header(self.headers, "Date") THEN self.headers
                     ELSE <<<<"Date", "now">>>> \o self.headers
        with_server == IF has_header(with_date, "Server") THEN with_date
                       ELSE <<<<"Server", "tiny-http (Rust)">>>> \o with_date
        with_upgrade == IF is_some(upgrade)
                        THEN <<<<"Connection", "upgrade">>, <<"Upgrade", unwrap(upgrade)>>>>
                             \o with_server
                        ELSE with_server
        \* an unknown length with Identity: the reader is read to its end
        data_length == IF self.data_length = None /\ encoding = Some(Identity)
                       THEN Some(self.reader) ELSE self.data_length
        dns == do_not_send_body \/ must_not_include_body(self.status_code)
        headers == IF encoding = Some(Chunked)
                   THEN Append(with_upgrade, <<"Transfer-Encoding", "chunked">>)
                   ELSE IF encoding = Some(Identity)
                   THEN Append(with_upgrade, <<"Content-Length", unwrap(data_length)>>)
                   ELSE with_upgrade
    IN  [version |-> http_version, status_code |-> self.status_code,
         headers |-> headers,
         body |-> message_body(dns, encoding, self.reader, data_length)]

(***************************************************************************)
(* What the client sends: a header block, `sent` bytes after it, and       *)
(* whether it then closes its side of the connection.  The connection is   *)
(* explored under five workloads, each with its clients' requests and its  *)
(* handlers' calls.                                                        *)
(***************************************************************************)
Shape(version, headers, sent, eof) ==
    [version |-> version, headers |-> headers, sent |-> sent, eof |-> eof]

Plain == Shape(<<1, 1>>, <<<<"Host", "localhost">>>>, 0, FALSE)

PipeliningShapes == { Plain }

BufferedShapes ==
    { Shape(<<1, 1>>, <<<<"Content-Length", "0">>>>, 0, FALSE),
      Shape(<<1, 1>>, <<<<"Content-Length", "2">>>>, 3, FALSE),
      Shape(<<1, 1>>, <<<<"Content-Length", "1024">>>>, 1024, FALSE) }

StreamedShapes ==
    { Shape(<<1, 1>>, <<<<"Content-Length", "2">>>>, 1, TRUE),
      Shape(<<1, 1>>, <<<<"Content-Length", "1025">>>>, 1025, FALSE),
      Shape(<<1, 1>>, <<<<"Transfer-Encoding", "chunked">>,
                        <<"Content-Length", "3">>>>, 2, FALSE) }

ExpectShapes ==
    { Plain,
      Shape(<<1, 1>>, <<<<"Expect", "100-Continue">>,
                        <<"Content-Length", "2">>>>, 2, FALSE),
      Shape(<<1, 1>>, <<<<"Expect", "189-dummy">>>>, 0, FALSE) }

DeliveryShapes ==
    { Plain,
      Shape(<<1, 1>>, <<<<"Content-Length", "2">>>>, 2, FALSE),
      Shape(<<1, 1>>, <<<<"Content-Length", "1024">>>>, 1024, FALSE),
      Shape(<<1, 1>>, <<<<"Content-Length", "1025">>>>, 1025, FALSE),
      Shape(<<1, 1>>, <<<<"Transfer-Encoding", "chunked">>>>, 2, FALSE),
      Shape(<<1, 1>>, <<<<"Expect", "100-Continue">>,
                        <<"Content-Length", "2">>>>, 2, FALSE),
      Shape(<<1, 1>>, <<<<"Expect", "100-Continue">>>>, 0, FALSE) }

SecureShapes ==
    { Plain,
      Shape(<<1, 1>>, <<<<"Content-Length", "2">>>>, 2, FALSE),
      Shape(<<1, 1>>, <<<<"Content-Length", "1025">>>>, 1025, FALSE) }

RejectShapes ==
    { Plain,
      Shape(<<1, 1>>, <<<<"Expect", "189-dummy">>>>, 0, FALSE),
      Shape(<<1, 1>>, <<<<"Content-Length", "2">>>>, 1, TRUE) }

KeepAliveShapes ==
    { Plain,
      Shape(<<1, 1>>, <<<<"Connection", "Close">>>>, 0, FALSE),
      Shape(<<1, 1>>, <<<<"Connection", "Upgrade">>>>, 0, FALSE),
      Shape(<<1, 0>>, <<<<"Host", "localhost">>>>, 0, FALSE),
      Shape(<<1, 0>>, <<<<"Connection", "Keep-Alive">>>>, 0, FALSE),
      Shape(<<2, 0>>, <<<<"Host", "localhost">>>>, 0, FALSE) }

(***************************************************************************)
(* The state.                                                              *)
(***************************************************************************)
VARIABLES
    pc,                 \* position of the connection driver (ClientConnection::next)
    no_more_requests,   \* ClientConnection.no_more_requests
    nhead,              \* header blocks read so far; the next one is read through read slot nhead + 1
    ahead,              \* bytes the client has sent between the read position and its next header block
    ceof,               \* the client sends nothing after these bytes
    rslot,              \* the SequentialReaders: "none", "Waiting", "MyTurn", "Dropped"
    wslot,              \* the SequentialWriters: "none", "live", "dropped"
    nw,                 \* SequentialWriters built so far (calls of sink.next())
    wire,               \* the chunks written to the connection's write stream, in order
    req,                \* the Request objects
    drv,                \* the driver's locals: the writer of the response it is sending,
                        \* the request it rejects, the request next() has just returned,
                        \* the ReadError that ended its reading
    fx,                 \* request-construction harness: one new_request call
    srv,                \* the Server: its MessagesQueue, the accept thread, and the
                        \* counts of failed accepts and of Err results of recv
    rx,                 \* response harness: one Request, the Response built for it,
                        \* and one respond call
    secure,             \* ClientConnection.secure: the connection carries TLS
    mq,                 \* a MessagesQueue with the threads that push to it and pop from it
    tp,                 \* a TaskPool with its worker threads
    acc,                \* the listener, the accept thread in its loop, the close flag
                        \* and the Server handle being dropped
    hp,                 \* header-block harness: the header lines of one request and
                        \* what ClientConnection::read and next make of them
    ut                  \* util harness: the readers and writers of src/util on a
                        \* stream of their own

ext == <<secure, mq, tp, acc, hp, ut>>
conn == <<pc, no_more_requests, nhead, ahead, ceof, rslot, wslot, nw, wire, req, drv>>

vars == <<pc, no_more_requests, nhead, ahead, ceof, rslot, wslot, nw, wire, req, drv, fx, srv, rx,
          secure, mq, tp, acc, hp, ut>>

Requests == 1..MaxReq

NoRequest ==
    [st |-> "none", owner |-> "-", op |-> "idle", todo |-> <<>>,
     http_version |-> <<0, 0>>, headers |-> <<>>,
     data_reader |-> NoReader, response_writer |-> FALSE,
     body_length |-> None, must_send_continue |-> FALSE,
     w |-> 0, first |-> -1, got |-> 0, eof |-> FALSE,
     as_reader_calls |-> 0, short_reads |-> 0, raw_writes |-> 0, fate |-> "-"]

NoDrv == [w |-> 0, status |-> 0, rq |-> 0, yielded |-> None, err |-> "-"]

\* a driver that answers every read error it answers with 400
reject_always_400(err) == 400

\* ClientConnection::next: the status of the response to a ReadError
reject_status(err) ==
    CASE err = "WrongRequestLine"  -> 400
      [] err = "WrongHeader"       -> 400
      [] err = "TimedOut"          -> 408
      [] err = "ExpectationFailed" -> 417

\* the driver's locals when it starts on the response to a ReadError
Rejecting(err, w) == [NoDrv EXCEPT !.w = w, !.status = reject_status(err), !.err = err]

FxIdle == [headers |-> <<>>, version |-> <<1, 1>>, sent |-> 0, result |-> None]

ConnInit ==
    /\ pc = "next"
    /\ no_more_requests = FALSE
    /\ nhead = 0
    /\ ahead = 0
    /\ ceof = FALSE
    /\ rslot = [i \in 1..(MaxReq + 1) |-> IF i = 1 THEN "MyTurn" ELSE "none"]
    /\ wslot = [j \in 1..MaxSlots |-> "none"]
    /\ nw = 0
    /\ wire = <<>>
    /\ req = [k \in Requests |-> NoRequest]
    /\ drv = NoDrv

\* Server::from_listener: an empty queue and a running accept thread
SrvInit == [messages |-> <<>>, accept |-> "accepting", accept_errors |-> 0, recv_errors |-> 0]

\* enum Message
NewRequest(k) == [kind |-> "NewRequest", rq |-> k]
Error == [kind |-> "Error", rq |-> 0]

\* MessagesQueue::push
push(queue, value) == Append(queue, value)

\* a connection task that reports the error that ended its connection
task_reports_error(err) == IF err = "-" THEN <<>> ELSE <<Error>>

\* the connection's task when next() has returned None: the loop over the
\* requests ends and nothing else is pushed, whatever ended the connection
task_end_messages(err) == <<>>

RxIdle ==
    [method |-> "GET", http_version |-> <<1, 1>>, headers |-> <<>>,
     response |-> None, calls |-> 0, last |-> None, encoding |-> None, written |-> None,
     io |-> None, result |-> None]

\* MessagesQueue::with_capacity: an empty queue; no thread is in a call.
\* cv is each consumer's place (idle, or inside pop / pop_timeout: in the
\* condition variable's wait set, or notified and about to take the lock),
\* out the values in the order pop_front handed them out, last the call that
\* returned last, errs the recv calls that returned "thread unblocked"
MqIdle ==
    [queue |-> <<>>, pushed |-> 0, unblocks |-> 0,
     cv |-> [c \in Threads |-> "idle"],
     out |-> <<>>, errs |-> 0,
     last |-> [op |-> "none", by |-> "none", ret |-> None, seq |-> 0]]
\* TaskPool::new(thread_count): add_thread(None) has been called thread_count
\* times; the threads it created have not run yet.  w is each worker thread's
\* place and the task it carries, t each task's fate, runs the number of
\* times each task was executed, sp the task a call of spawn holds between
\* its test of the counters and add_thread (the todo lock is held meanwhile)
TaskPool_new(thread_count) ==
    [thread_count |-> thread_count, active_tasks |-> 0, waiting_tasks |-> 0,
     todo |-> <<>>, sp |-> 0, spawned |-> 0,
     w |-> [i \in Workers |-> [st |-> IF i <= thread_count THEN "started" ELSE "unborn",
                               task |-> 0]],
     t |-> [k \in Tasks |-> "none"],
     runs |-> [k \in Tasks |-> 0]]

\* no pool in use
TpIdle == TaskPool_new(0)

\* Server::from_listener: the accept thread is about to test the close flag
\* for the first time, nobody has connected, the Server handle is alive.
\* backlog is the listener's queue of connections not yet accepted, fds the
\* descriptors the process holds for client connections, open the
\* connections handed to a task and not yet ended, at_close the number of
\* Requests the connection at hand had yielded when the close flag was set
AccIdle ==
    [close |-> FALSE, pc |-> "head", observed |-> FALSE, backlog |-> <<>>,
     connected |-> 0, fds |-> 0, open |-> 0, accepted |-> 0, after_observed |-> 0,
     limit_hits |-> 0, errors |-> 0, dropped |-> "no", wake |-> "none",
     at_close |-> 0]

\* no header block at hand: sent are the header lines the client sends, lines
\* those not yet read, headers the ones parsed, result the outcome of
\* ClientConnection::read, status what next answers by itself, delivered
\* whether next returned a Request, closed whether next returned None
HpIdle ==
    [sent |-> <<>>, lines |-> <<>>, headers |-> <<>>, result |-> "-",
     status |-> 0, delivered |-> FALSE, closed |-> FALSE]

\* a plain-TCP connection; the queue and the pool on their own are not in use
UtIdle == [kind |-> "-"]

ExtIdle ==
    /\ secure = FALSE /\ mq = MqIdle /\ tp = TpIdle /\ acc = AccIdle /\ hp = HpIdle
    /\ ut = UtIdle

Init == ConnInit /\ fx = FxIdle /\ srv = SrvInit /\ rx = RxIdle /\ ExtIdle

(***************************************************************************)
(* util/sequential.rs: the ordering signals of the two chains of slots.    *)
(***************************************************************************)
\* SequentialWriter::write: the trigger is None, or recv() on it returns
trigger_fired(j) == IF j = 1 THEN TRUE ELSE wslot[j - 1] = "dropped"

\* a SequentialReader that reads without waiting for its predecessor
reader_at_once(i) == TRUE

\* SequentialReader::read: MyTurn, or recv() of the reader from the predecessor returns
reader_received(i) ==
    IF rslot[i] = "MyTurn" THEN TRUE
    ELSE rslot[i] = "Waiting" /\ i > 1 /\ rslot[i - 1] = "Dropped"

\* Drop for SequentialWriter
writer_drop(ws, j) == [ws EXCEPT ![j] = "dropped"]

\* Drop for SequentialReader
reader_drop(rs, i) == [rs EXCEPT ![i] = "Dropped"]

(***************************************************************************)
(* request.rs: dropping a request's body reader.  An EqualReader reads and *)
(* throws away the bytes it has not yielded; the readers that keep the     *)
(* read slot then drop it.                                                 *)
(***************************************************************************)

\* bytes Drop for EqualReader consumes, `avail` bytes being left before the client stops
equal_reader_drop(reader, avail) ==
    IF reader.kind = "equal" THEN Min(reader.size, avail) ELSE 0

\* a drop of the body reader that never waits for the client
drop_at_once(reader, avail, eof) == TRUE

\* Drop for EqualReader returns: it has read the bytes it had not yielded, or
\* a read returned 0 because the client has stopped sending
drop_returns(reader, avail, eof) ==
    reader.kind = "equal" => (avail >= reader.size \/ eof)

\* the Request with `self.data_reader = None`
drop_data_reader(r) == [r EXCEPT !.data_reader = NoReader]

\* an into_writer_impl that leaves the writer in the Request
writer_left(r) == r

\* Request::into_writer_impl: the writer is swapped out of the Request
into_writer_impl(r) == [r EXCEPT !.response_writer = FALSE]

\* an as_reader that does not clear must_send_continue
continue_pending(r) == r

\* Request::as_reader: `self.must_send_continue = false`
continue_sent(r) == [r EXCEPT !.must_send_continue = FALSE]

\* the Request object, once it no longer exists
Gone(r, fate) == [NoRequest EXCEPT !.st = "gone", !.w = r.w, !.fate = fate]

(***************************************************************************)
(* lib.rs: the task of a connection, which pushes the requests the driver  *)
(* yields.                                                                 *)
(***************************************************************************)
\* a task that goes on to the next request whatever the connection
never_waits(is_secure) == "next"

\* where the task goes after its push: on a secure connection it waits on
\* receiver.recv() before it calls next() again
after_push(is_secure) == IF is_secure THEN "ack" ELSE "next"

\* the Request's notification has been sent: the Request has been answered
\* or dropped, and a writer or stream taken out of it dropped
notified(k) == req[k].st = "gone"

(***************************************************************************)
(* client.rs: the connection driver.                                       *)
(***************************************************************************)
\* ClientConnection::next: the test of no_more_requests on entry
DrvNext ==
    /\ pc = "next"
    /\ pc' = IF no_more_requests THEN "closing" ELSE "read"
    /\ drv' = NoDrv
    /\ UNCHANGED <<no_more_requests, nhead, ahead, ceof, rslot, wslot, nw,
                   wire, req, fx, srv, rx, ext>>

\* ClientConnection::read returns a header block, new_request is called on it,
\* and next() rejects the request, answers 505 or yields it to the message queue
DrvReadHead(s, limit) ==
    /\ pc = "read"
    /\ nhead < limit
    /\ reader_received(nhead + 1)
    /\ ahead = 0 /\ ~ceof
    /\ LET k == nhead + 1
           j == nw + 1
           r == new_request(s.version, s.headers, s.sent)
           keeps == r.ok /\ holds_source(r.data_reader)
           rq == [NoRequest EXCEPT
                    !.st = "queued",
                    !.http_version = r.http_version,
                    !.headers = r.headers,
                    !.data_reader = r.data_reader,
                    !.response_writer = TRUE,
                    !.body_length = r.body_length,
                    !.must_send_continue = r.must_send_continue,
                    !.w = j]
       IN  /\ nhead' = k
           /\ ahead' = s.sent - r.consumed
           /\ ceof' = s.eof
           /\ rslot' = [rslot EXCEPT ![k] = IF keeps THEN "MyTurn" ELSE "Dropped",
                                     ![k + 1] = "Waiting"]
           /\ IF ~r.ok /\ r.err = "ExpectationFailed" THEN
                  \* the request's writer is dropped with the failed construction
                  /\ wslot' = [wslot EXCEPT ![j] = "dropped", ![j + 1] = "live"]
                  /\ nw' = j + 1
                  /\ drv' = Rejecting("ExpectationFailed", j + 1)
                  /\ pc' = "reject"
                  /\ UNCHANGED <<req, no_more_requests, srv, rx, ext>>
              ELSE IF ~r.ok THEN
                  /\ wslot' = [wslot EXCEPT ![j] = "dropped"]
                  /\ nw' = j
                  /\ pc' = "closing"
                  /\ drv' = [NoDrv EXCEPT !.err = "ReadIoError"]
                  /\ UNCHANGED <<req, no_more_requests, srv, rx, ext>>
              ELSE IF version_gt(s.version, <<1, 1>>) THEN
                  /\ wslot' = [wslot EXCEPT ![j] = "live", ![j + 1] = "live"]
                  /\ nw' = j + 1
                  /\ drv' = [NoDrv EXCEPT !.w = j + 1, !.status = 505, !.rq = k]
                  /\ req' = [req EXCEPT ![k] = [rq EXCEPT !.st = "driver"]]
                  /\ pc' = "reject"
                  /\ UNCHANGED <<no_more_requests, srv, rx, ext>>
              ELSE
                  /\ wslot' = [wslot EXCEPT ![j] = "live"]
                  /\ nw' = j
                  /\ no_more_requests' = connection_ends(s.version, s.headers)
                  /\ req' = [req EXCEPT ![k] = rq]
                  \* on a secure connection the task then waits for the Request's
                  \* notification before it calls next() again
                  /\ pc' = after_push(secure)
                  /\ drv' = [NoDrv EXCEPT !.yielded = Some(<<s.version, s.headers>>)]
                  \* the connection's task pushes the request next() returned
                  /\ srv' = [srv EXCEPT !.messages = push(srv.messages, NewRequest(k))]
    /\ UNCHANGED <<wire, fx, rx, ext>>

\* ClientConnection::read fails with WrongRequestLine or WrongHeader: the client
\* sent a malformed header block, or the parser starts on surplus body bytes
DrvReadBad(limit) ==
    /\ pc = "read"
    /\ reader_received(nhead + 1)
    /\ ahead > 0 \/ (~ceof /\ nhead < limit)
    /\ ahead' = 0
    /\ rslot' = [rslot EXCEPT ![nhead + 1] = "MyTurn"]
    /\ wslot' = [wslot EXCEPT ![nw + 1] = "live"]
    /\ nw' = nw + 1
    /\ \E err \in {"WrongRequestLine", "WrongHeader"} : drv' = Rejecting(err, nw + 1)
    /\ pc' = "reject"
    /\ UNCHANGED <<no_more_requests, nhead, ceof, wire, req, fx, srv, rx, ext>>

\* ClientConnection::read fails with ReadIoError: the client closed the connection
DrvReadEof ==
    /\ pc = "read"
    /\ reader_received(nhead + 1)
    /\ ahead = 0 \/ ceof
    /\ ahead' = 0
    /\ ceof' = TRUE
    /\ rslot' = [rslot EXCEPT ![nhead + 1] = "MyTurn"]
    /\ pc' = "closing"
    /\ drv' = [NoDrv EXCEPT !.err = "ReadIoError"]
    /\ UNCHANGED <<no_more_requests, nhead, wslot, nw, wire, req, fx, srv, rx, ext>>

\* ClientConnection::read fails with a ReadIoError of kind TimedOut: no byte of
\* a further request has come
DrvReadTimedOut ==
    /\ pc = "read"
    /\ reader_received(nhead + 1)
    /\ ahead = 0 /\ ~ceof
    /\ rslot' = [rslot EXCEPT ![nhead + 1] = "MyTurn"]
    /\ wslot' = [wslot EXCEPT ![nw + 1] = "live"]
    /\ nw' = nw + 1
    /\ drv' = Rejecting("TimedOut", nw + 1)
    /\ pc' = "reject"
    /\ UNCHANGED <<no_more_requests, nhead, ahead, ceof, wire, req, fx, srv, rx, ext>>

\* the driver's own response (400, 417, 505) is printed to a fresh writer; after
\* a 505 the request is dropped by `continue` and the loop reads on
DrvRespond ==
    /\ pc = "reject"
    /\ trigger_fired(drv.w)
    /\ IF drv.status = 505 THEN
           LET r == req[drv.rq]
           IN  /\ wire' = wire \o raw_print(drv.w, Response(505, 52), FALSE)
                               \o (IF r.response_writer
                                   THEN raw_print(r.w, Response(500, 0), FALSE)
                                   ELSE <<>>)
               /\ wslot' = writer_drop(writer_drop(wslot, drv.w), r.w)
               /\ rslot' = IF holds_source(r.data_reader)
                           THEN reader_drop(rslot, drv.rq) ELSE rslot
               /\ ahead' = ahead - equal_reader_drop(r.data_reader, ahead)
               /\ req' = [req EXCEPT ![drv.rq] = Gone(r, "version")]
               /\ pc' = "read"
       ELSE
           /\ wire' = wire \o raw_print(drv.w, Response(drv.status, 0), drv.status = 417)
           /\ wslot' = writer_drop(wslot, drv.w)
           /\ pc' = "closing"
           /\ UNCHANGED <<rslot, ahead, req>>
    /\ drv' = IF drv.status = 505 THEN NoDrv
              ELSE [NoDrv EXCEPT !.w = drv.w, !.err = drv.err]
    /\ UNCHANGED <<no_more_requests, nhead, ceof, nw, fx, srv, rx, ext>>

\* the ClientConnection is dropped, its fields in the order of their
\* declaration: first source and sink
DrvDropSink ==
    /\ pc = "closing"
    /\ pc' = "dropping"
    /\ srv' = [srv EXCEPT !.messages = srv.messages \o task_end_messages(drv.err)]
    /\ UNCHANGED <<no_more_requests, nhead, ahead, ceof, rslot, wslot, nw, wire, req,
                   drv, fx, rx, ext>>

\* then next_header_source, whose drop waits for the reader when the slot is
\* still Waiting
DrvClose ==
    /\ pc = "dropping"
    /\ reader_received(nhead + 1)
    /\ rslot' = reader_drop(rslot, nhead + 1)
    /\ pc' = "closed"
    /\ UNCHANGED <<no_more_requests, nhead, ahead, ceof, wslot, nw, wire, req, drv, fx, srv, rx, ext>>

(***************************************************************************)
(* util/sequential.rs, util/refined_tcp_stream.rs: the write half of the   *)
(* socket is in an Arc shared by the SequentialWriterBuilder and every     *)
(* SequentialWriter; the drop of the last of them drops the                *)
(* RefinedTcpStream, which shuts the write half down.                      *)
(***************************************************************************)
\* the ClientConnection still has its sink
sink_alive == pc \notin {"dropping", "closed"}

\* a count that leaves out the clones of the Arc held by the writers
sink_count == IF sink_alive THEN 1 ELSE 0

\* Arc::strong_count of SequentialWriterBuilder.writer
strong_count ==
    (IF sink_alive THEN 1 ELSE 0) + Cardinality({j \in 1..MaxSlots : wslot[j] = "live"})

\* Drop for RefinedTcpStream with close_write has run: shutdown(Shutdown::Write)
write_shutdown == strong_count = 0

(***************************************************************************)
(* lib.rs, request.rs: the handler threads.  A thread that is inside a     *)
(* call that writes (respond, as_reader, upgrade, the drop of a Request, a *)
(* write on a raw writer) does nothing else until the call returns.        *)
(***************************************************************************)
Blocked(t) == \E k \in Requests : req[k].owner = t /\ req[k].op # "idle"

Holds(t, k, st) == req[k].st = st /\ req[k].owner = t /\ ~Blocked(t)

\* the read slot of request k is given up together with its body reader
ReleaseReader(k) ==
    /\ drop_returns(req[k].data_reader, ahead, ceof)
    /\ rslot' = IF holds_source(req[k].data_reader) THEN reader_drop(rslot, k) ELSE rslot
    /\ ahead' = ahead - equal_reader_drop(req[k].data_reader, ahead)

\* Server::recv: MessagesQueue::pop returns the oldest message, here a request
\* (the threads being alike, the first request is taken to go to h1)
Recv(t) ==
    /\ ~Blocked(t)
    /\ srv.messages # <<>>
    /\ Head(srv.messages).kind = "NewRequest"
    /\ LET k == Head(srv.messages).rq
       IN  /\ k = 1 => t = "h1"
           /\ req' = [req EXCEPT ![k].st = "held", ![k].owner = t]
    /\ srv' = [srv EXCEPT !.messages = Tail(srv.messages)]
    /\ UNCHANGED <<pc, no_more_requests, nhead, ahead, ceof, rslot, wslot, nw,
                   wire, drv, fx, rx, ext>>

\* Server::recv, try_recv, recv_timeout: the oldest message is an Error, and
\* the call returns Err
RecvError(t) ==
    /\ ~Blocked(t)
    /\ srv.messages # <<>>
    /\ Head(srv.messages).kind = "Error"
    /\ srv' = [srv EXCEPT !.messages = Tail(srv.messages),
                          !.recv_errors = srv.recv_errors + 1]
    /\ UNCHANGED <<pc, no_more_requests, nhead, ahead, ceof, rslot, wslot, nw,
                   wire, req, drv, fx, rx, ext>>

\* the accept thread: server.accept() fails, the error is pushed and the
\* thread leaves its loop
AcceptFail ==
    /\ srv.accept = "accepting"
    /\ srv' = [srv EXCEPT !.messages = push(srv.messages, Error),
                          !.accept = "terminated",
                          !.accept_errors = srv.accept_errors + 1]
    /\ UNCHANGED <<pc, no_more_requests, nhead, ahead, ceof, rslot, wslot, nw,
                   wire, req, drv, fx, rx, ext>>

\* Request::as_reader: a pending 100 Continue is printed first
AsReader(t, k, calls) ==
    /\ Holds(t, k, "held")
    /\ req[k].as_reader_calls < calls
    /\ req' = [req EXCEPT
                 ![k].as_reader_calls = @ + 1,
                 ![k].op = IF req[k].must_send_continue THEN "as_reader" ELSE "idle",
                 ![k].todo = IF req[k].must_send_continue
                             THEN raw_print(req[k].w, Response(100, 0), TRUE) ELSE <<>>]
    /\ UNCHANGED <<pc, no_more_requests, nhead, ahead, ceof, rslot, wslot, nw,
                   wire, drv, fx, srv, rx, ext>>

\* bytes a read on the body reader can return now
readable(r) ==
    CASE r.data_reader.kind = "cursor"  -> r.data_reader.size
      [] r.data_reader.kind = "equal"   -> Min(r.data_reader.size, ahead)
      [] r.data_reader.kind = "chunked" -> ahead
      [] r.data_reader.kind = "raw"     -> ahead
      [] OTHER                          -> 0

\* one read on the reader as_reader returned: n bytes, or 0 at the end of the body
Read(t, k) ==
    /\ Holds(t, k, "held")
    /\ req[k].as_reader_calls >= 1
    /\ ~req[k].eof
    /\ LET r == req[k]
           a == readable(r)
       IN  IF a = 0 THEN
               \* a raw reader at the end of what the client sent waits for more
               /\ r.data_reader.kind = "raw" => ceof
               /\ req' = [req EXCEPT ![k].eof = TRUE]
               /\ UNCHANGED ahead
           ELSE
               \E n \in {1, a} :
                   /\ n < a => r.short_reads < MaxShortReads
                   /\ req' = [req EXCEPT
                                ![k].got = @ + n,
                                ![k].first = IF @ = -1 THEN r.data_reader.lo ELSE @,
                                ![k].short_reads = IF n < a THEN @ + 1 ELSE @,
                                ![k].data_reader =
                                    [@ EXCEPT !.lo = @ + n,
                                              !.size = IF @ >= n THEN @ - n ELSE 0]]
                   /\ ahead' = IF holds_source(r.data_reader) THEN ahead - n ELSE ahead
    /\ UNCHANGED <<pc, no_more_requests, nhead, ceof, rslot, wslot, nw, wire, drv, fx, srv, rx, ext>>

\* Request::respond up to the first write of raw_print: the body reader is
\* dropped and the writer taken
Respond(t, k, response) ==
    /\ Holds(t, k, "held")
    /\ ReleaseReader(k)
    /\ req' = [req EXCEPT ![k] =
                 [into_writer_impl(drop_data_reader(req[k])) EXCEPT
                    !.op = "respond",
                    !.todo = raw_print(req[k].w, response, FALSE)]]
    /\ UNCHANGED <<pc, no_more_requests, nhead, ceof, wslot, nw, wire, drv, fx, srv, rx, ext>>

\* Drop for Request, the Request being still whole: the body reader is dropped
\* and respond_impl is called with an empty 500 when the writer is still there
DropRequest(t, k) ==
    /\ Holds(t, k, "held")
    /\ ReleaseReader(k)
    /\ IF req[k].response_writer
       THEN req' = [req EXCEPT ![k] =
                      [into_writer_impl(drop_data_reader(req[k])) EXCEPT
                         !.op = "drop",
                         !.todo = raw_print(req[k].w, Response(500, 0), FALSE)]]
       ELSE req' = [req EXCEPT ![k] = Gone(req[k], "dropped")]
    /\ UNCHANGED <<pc, no_more_requests, nhead, ceof, wslot, nw, wire, drv, fx, srv, rx, ext>>

\* Request::into_writer: the writer is handed out and the Request dropped
IntoWriter(t, k) ==
    /\ Holds(t, k, "held")
    /\ ReleaseReader(k)
    /\ req' = [req EXCEPT ![k] =
                 [Gone(into_writer_impl(req[k]), "into_writer") EXCEPT
                    !.st = "writer", !.owner = t]]
    /\ UNCHANGED <<pc, no_more_requests, nhead, ceof, wslot, nw, wire, drv, fx, srv, rx, ext>>

\* Request::upgrade up to the first write of raw_print
Upgrade(t, k) ==
    /\ Holds(t, k, "held")
    /\ req' = [req EXCEPT ![k].op = "upgrade",
                          ![k].todo = raw_print(req[k].w, Response(101, 0), FALSE)]
    /\ UNCHANGED <<pc, no_more_requests, nhead, ahead, ceof, rslot, wslot, nw,
                   wire, drv, fx, srv, rx, ext>>

\* a write on the writer of into_writer or on the stream of upgrade
RawWrite(t, k) ==
    /\ Holds(t, k, "writer") \/ Holds(t, k, "stream")
    /\ req[k].raw_writes < MaxRawWrites
    /\ req' = [req EXCEPT ![k].op = "raw_write",
                          ![k].raw_writes = @ + 1,
                          ![k].todo = <<Chunk(req[k].w, 0, "raw")>>]
    /\ UNCHANGED <<pc, no_more_requests, nhead, ahead, ceof, rslot, wslot, nw,
                   wire, drv, fx, srv, rx, ext>>

\* the writer of into_writer, or the stream of upgrade, is dropped
DropWriter(t, k) ==
    /\ Holds(t, k, "writer") \/ Holds(t, k, "stream")
    /\ ReleaseReader(k)
    /\ wslot' = writer_drop(wslot, req[k].w)
    /\ req' = [req EXCEPT ![k] = Gone(req[k], req[k].fate)]
    /\ UNCHANGED <<pc, no_more_requests, nhead, ceof, nw, wire, drv, fx, srv, rx, ext>>

\* SequentialWriter::write for the next chunk of the call the thread is in, and
\* the rest of the call once its last chunk is written
Write(k) ==
    /\ req[k].op \notin {"idle", "drain"}
    /\ trigger_fired(req[k].w)
    /\ wire' = Append(wire, Head(req[k].todo))
    /\ LET r == req[k]
           idle == [r EXCEPT !.op = "idle", !.todo = <<>>]
       IN  IF Len(r.todo) > 1 THEN
               /\ req' = [req EXCEPT ![k].todo = Tail(@)]
               /\ UNCHANGED wslot
           ELSE IF r.op = "as_reader" THEN
               /\ req' = [req EXCEPT ![k] = continue_sent(idle)]
               /\ UNCHANGED wslot
           ELSE IF r.op = "raw_write" THEN
               /\ req' = [req EXCEPT ![k] = idle]
               /\ UNCHANGED wslot
           ELSE IF r.op = "upgrade" THEN
               \* CustomStream::new(into_reader_impl(), into_writer_impl())
               /\ req' = [req EXCEPT ![k] =
                            [into_writer_impl(idle) EXCEPT !.st = "stream",
                                                           !.fate = "upgraded"]]
               /\ UNCHANGED wslot
           ELSE IF r.op = "respond" /\ r.response_writer THEN
               \* respond_impl is over and the Request is dropped with a writer in it
               /\ req' = [req EXCEPT ![k] =
                            [idle EXCEPT !.op = "drop",
                                         !.todo = raw_print(r.w, Response(500, 0), FALSE)]]
               /\ wslot' = writer_drop(wslot, r.w)
           ELSE
               \* respond_impl is over: the writer is flushed and dropped
               /\ req' = [req EXCEPT ![k] =
                            Gone(r, IF r.op = "respond" THEN "responded" ELSE "dropped")]
               /\ wslot' = writer_drop(wslot, r.w)
    /\ UNCHANGED <<pc, no_more_requests, nhead, ahead, ceof, rslot, nw, drv, fx, srv, rx, ext>>

\* receiver.recv() in the task of a secure connection returns
DrvAck ==
    /\ pc = "ack"
    /\ notified(nhead)
    /\ pc' = "next"
    /\ UNCHANGED <<no_more_requests, nhead, ahead, ceof, rslot, wslot, nw, wire, req,
                   drv, fx, srv, rx, ext>>

Driver(shapes, limit) ==
    \/ DrvNext
    \/ \E s \in shapes : DrvReadHead(s, limit)
    \/ DrvReadBad(limit)
    \/ DrvReadEof
    \/ DrvRespond
    \/ DrvDropSink
    \/ DrvClose

\* handlers that answer, drop, take the writer of, or upgrade their requests
NextPipelining ==
    \/ Driver(PipeliningShapes, MaxReq)
    \/ \E t \in Threads :
        \/ Recv(t)
        \/ \E k \in Requests :
            \/ \E response \in UserResponses : Respond(t, k, response)
            \/ DropRequest(t, k)
            \/ IntoWriter(t, k)
            \/ Upgrade(t, k)
            \/ RawWrite(t, k)
            \/ DropWriter(t, k)
    \/ \E k \in Requests : Write(k)

\* handlers that read the body of their requests, then answer or drop them
ReadingHandler(t, calls) ==
    \/ Recv(t)
    \/ \E k \in Requests :
        \/ AsReader(t, k, calls)
        \/ Read(t, k)
        \/ \E response \in UserResponses : Respond(t, k, response)
        \/ DropRequest(t, k)

NextBuffered ==
    \/ Driver(BufferedShapes, MaxBodyReq)
    \/ \E t \in Threads : ReadingHandler(t, 1)
    \/ \E k \in Requests : Write(k)

NextStreamed ==
    \/ Driver(StreamedShapes, MaxBodyReq)
    \/ \E t \in Threads : ReadingHandler(t, 1)
    \/ \E k \in Requests : Write(k)

NextExpect ==
    \/ Driver(ExpectShapes, MaxBodyReq)
    \/ \E t \in Threads : ReadingHandler(t, MaxAsReader)
    \/ \E k \in Requests : Write(k)

\* handlers that answer or drop their requests
NextKeepAlive ==
    \/ Driver(KeepAliveShapes, MaxReq)
    \/ \E t \in Threads :
        \/ Recv(t)
        \/ \E k \in Requests :
            \/ \E response \in UserResponses : Respond(t, k, response)
            \/ DropRequest(t, k)
    \/ \E k \in Requests : Write(k)

\* requests with and without a body, buffered or not, and handlers that
\* answer or drop them
NextDelivery ==
    \/ Driver(DeliveryShapes, MaxBodyReq)
    \/ \E t \in Threads :
        \/ Recv(t)
        \/ \E k \in Requests :
            \/ \E response \in UserResponses : Respond(t, k, response)
            \/ DropRequest(t, k)
    \/ \E k \in Requests : Write(k)

\* a connection that carries TLS, and handlers that answer or drop the
\* requests or take their writers
NextSecure ==
    \/ Driver(SecureShapes, MaxReq)
    \/ DrvAck
    \/ \E t \in Threads :
        \/ Recv(t)
        \/ \E k \in Requests :
            \/ \E response \in UserResponses : Respond(t, k, response)
            \/ DropRequest(t, k)
            \/ IntoWriter(t, k)
            \/ DropWriter(t, k)
    \/ \E k \in Requests : Write(k)

\* a client whose requests fail to be read, also by a read time-out, an
\* accept thread whose accept may fail, and handlers that answer or drop the
\* requests that were read
NextRejects ==
    \/ Driver(RejectShapes, MaxReq)
    \/ DrvReadTimedOut
    \/ AcceptFail
    \/ \E t \in Threads :
        \/ Recv(t)
        \/ RecvError(t)
        \/ \E k \in Requests :
            \/ \E response \in UserResponses : Respond(t, k, response)
            \/ DropRequest(t, k)
    \/ \E k \in Requests : Write(k)

(***************************************************************************)
(* request.rs: new_request on its own, over every list of the header lines *)
(* below, the client closing its side after `sent` bytes of body.          *)
(***************************************************************************)
HarnessHeaders ==
    { <<"Host", "localhost">>,
      <<"Transfer-Encoding", "chunked">>,
      <<"Content-Length", "3">>,
      <<"CONTENT-LENGTH", "1025">>,
      <<"Content-Length", "0">>,
      <<"Content-Length", "abc">>,
      <<"Connection", "keep-alive, Upgrade">>,
      <<"Connection", "Close">>,
      <<"Expect", "100-Continue">> }

HarnessSent == {0, 1025}

InitRequest ==
    /\ ConnInit
    /\ \E n \in 0..MaxHeaders : \E headers \in [1..n -> HarnessHeaders] :
       \E sent \in HarnessSent :
          fx = [FxIdle EXCEPT !.headers = headers, !.sent = sent]
    /\ srv = SrvInit
    /\ rx = RxIdle
    /\ ExtIdle

FxNewRequest ==
    /\ fx.result = None
    /\ fx' = [fx EXCEPT !.result = Some(new_request(fx.version, fx.headers, fx.sent))]
    /\ UNCHANGED <<pc, no_more_requests, nhead, ahead, ceof, rslot, wslot, nw, wire,
                   req, drv, srv, rx, ext>>

NextRequest == FxNewRequest

SpecPipelining == Init /\ [][NextPipelining]_vars
SpecBuffered == Init /\ [][NextBuffered]_vars
SpecStreamed == Init /\ [][NextStreamed]_vars
SpecExpect == Init /\ [][NextExpect]_vars
SpecKeepAlive == Init /\ [][NextKeepAlive]_vars
SpecDelivery == Init /\ [][NextDelivery]_vars
InitSecure ==
    /\ ConnInit /\ fx = FxIdle /\ srv = SrvInit /\ rx = RxIdle
    /\ secure = TRUE /\ mq = MqIdle /\ tp = TpIdle /\ acc = AccIdle /\ hp = HpIdle /\ ut = UtIdle

SpecSecure == InitSecure /\ [][NextSecure]_vars
SpecRejects == Init /\ [][NextRejects]_vars
SpecRequest == InitRequest /\ [][NextRequest]_vars

\* a handler thread that can take a step takes one, and so does the driver
FairPipelining == SpecPipelining /\ WF_vars(NextPipelining)
FairKeepAlive == SpecKeepAlive /\ WF_vars(NextKeepAlive)

(***************************************************************************)
(* Properties.                                                             *)
(***************************************************************************)
\* chunks Chunk(j, status, part) on the connection's write stream
Written(j, status, part) ==
    Cardinality({i \in 1..Len(wire) : wire[i] = Chunk(j, status, part)})

\* the request whose response a chunk belongs to, 0 for a response of the driver
ResponseOf(c) ==
    IF \E k \in Requests : req[k].st # "none" /\ req[k].w = c.slot
    THEN CHOOSE k \in Requests : req[k].st # "none" /\ req[k].w = c.slot
    ELSE 0

\* C1: on one connection the bytes of the response to request k-1 are all
\* written before any byte of the response to request k, and the bytes of two
\* responses never interleave, whatever the handlers' order of calls: on the
\* write stream the chunks of the requests' responses are in request order.
C1_ResponsesInRequestOrder ==
    \A i, j \in 1..Len(wire) :
        (i < j /\ ResponseOf(wire[i]) # 0 /\ ResponseOf(wire[j]) # 0)
            => ResponseOf(wire[i]) <= ResponseOf(wire[j])

\* C2: the parser of request k+1 consumes no byte of the stream until the read
\* slot owned by request k has been dropped: every step in which the driver's
\* read of a header block ends is taken with all earlier read slots dropped.
C2_ParserWaitsForBodyReader ==
    [][(pc = "read" /\ pc' # "read") => \A i \in 1..nhead : rslot[i] = "Dropped"]_vars

\* request 1 kept the read slot with its body reader, dropped it, and the
\* parser has gone on to request 2, which now keeps the slot
C2_Witness ==
    /\ nhead = 2
    /\ req[2].st = "held" /\ holds_source(req[2].data_reader)
    /\ req[1].st = "gone"
    /\ rslot[1] = "Dropped" /\ rslot[2] = "MyTurn"

\* C3: whatever the order of the respond calls on the pipelined requests of a
\* connection, every respond call eventually returns with its response
\* written, also when one thread holds several requests and answers a later
\* one first.
C3_EveryRespondReturns ==
    \A k \in Requests : (req[k].op = "respond") ~> (req[k].fate = "responded")

\* C4: a Request dropped with its response writer still in it gets exactly one
\* response with status 500 and no body on its write slot, and the slot is not
\* released before that response is written.
C4_DroppedRequestAnswers500 ==
    \A k \in Requests :
        /\ req[k].op = "drop" => wslot[req[k].w] = "live"
        /\ (req[k].st = "gone" /\ req[k].fate = "dropped") =>
               /\ Written(req[k].w, 500, "head") = 1
               /\ Written(req[k].w, 500, "body") = 0
               /\ wslot[req[k].w] = "dropped"

\* a dropped request has its 500, and the next response has been written after it
C4_Witness ==
    \E k \in Requests :
        /\ req[k].st = "gone" /\ req[k].fate = "dropped"
        /\ Written(req[k].w, 500, "head") = 1
        /\ \E i \in 1..Len(wire) : wire[i].slot = req[k].w + 1

\* C5: a Request is consumed by one terminal operation: once respond,
\* into_writer or upgrade has taken the writer, the drop of the Request writes
\* nothing, so that no write slot carries both a response of the caller and an
\* automatic 500.
C5_OneTerminalOperation ==
    /\ \A j \in 1..MaxSlots :
           (\E i \in 1..Len(wire) : wire[i].slot = j /\ wire[i].status \in {200, 101, 0})
               => Written(j, 500, "head") = 0
    /\ \A k \in Requests :
           req[k].fate \in {"responded", "into_writer", "upgraded"}
               => Written(req[k].w, 500, "head") = 0

\* one request answered by respond and one consumed by into_writer are both gone
C5_Witness ==
    \E k, l \in Requests :
        /\ req[k].st = "gone" /\ req[k].fate = "responded"
        /\ Written(req[k].w, 200, "head") = 1
        /\ req[l].st = "gone" /\ req[l].fate = "into_writer"

\* C6: for a request with Expect: 100-continue no 100 Continue is written
\* before the first as_reader call, exactly one has been written when the first
\* as_reader call returns, and later as_reader calls write none; a request
\* without the header gets none.
C6_ContinueOnFirstAsReader ==
    \A k \in Requests :
        LET r == req[k]
            n == Written(r.w, 100, "head")
        IN  /\ n <= 1
            /\ Written(r.w, 100, "body") = 0
            /\ (r.st \in {"queued", "held"} /\ r.as_reader_calls = 0) => n = 0
            /\ (r.st = "held" /\ expects_continue(r.headers) = "none") => n = 0
            /\ (/\ r.st = "held"
                /\ expects_continue(r.headers) = "100-continue"
                /\ r.as_reader_calls >= 1
                /\ r.op # "as_reader") => n = 1

\* a second as_reader call has returned on a request with Expect: 100-continue
C6_Witness ==
    \E k \in Requests :
        /\ req[k].st = "held" /\ req[k].op = "idle"
        /\ expects_continue(req[k].headers) = "100-continue"
        /\ req[k].as_reader_calls >= 2
        /\ Written(req[k].w, 100, "head") = 1

\* the framing of the body that the reader built by new_request stands for
Framing(rq) ==
    CASE rq.data_reader.kind = "raw"     -> <<"Upgrade">>
      [] rq.data_reader.kind = "chunked" -> <<"Chunked">>
      [] rq.data_reader.kind \in {"cursor", "equal"} -> <<"Length", rq.data_reader.size>>
      [] OTHER -> IF is_some(rq.body_length) THEN <<"Length", unwrap(rq.body_length)>>
                  ELSE <<"None">>

HasTransferEncoding(headers) == is_some(find(headers, "Transfer-Encoding"))

HasConnectionUpgrade(headers) ==
    /\ is_some(find(headers, "Connection"))
    /\ contains(to_ascii_lowercase(unwrap(find(headers, "Connection"))), "upgrade")

LengthFraming(headers) ==
    LET h == find(headers, "Content-Length")
    IN  IF is_some(h) /\ is_some(from_str_usize(unwrap(h)))
        THEN <<"Length", unwrap(from_str_usize(unwrap(h)))>>
        ELSE <<"None">>

Constructed == is_some(fx.result) /\ unwrap(fx.result).ok

\* C7 as stated: the framing is Chunked if Transfer-Encoding is present; else
\* Upgrade if Connection contains upgrade; else Length(n) if Content-Length: n
\* is present; else None.
C7_TransferEncodingFirst ==
    Constructed =>
        Framing(unwrap(fx.result)) =
            IF HasTransferEncoding(fx.headers) THEN <<"Chunked">>
            ELSE IF HasConnectionUpgrade(fx.headers) THEN <<"Upgrade">>
            ELSE LengthFraming(fx.headers)

\* C7: the framing chosen by new_request is Upgrade if Connection contains
\* upgrade; else Chunked if Transfer-Encoding is present; else Length(n) if the
\* first Content-Length header has the value n; else None.
C7_UpgradeFirst ==
    Constructed =>
        Framing(unwrap(fx.result)) =
            IF HasConnectionUpgrade(fx.headers) THEN <<"Upgrade">>
            ELSE IF HasTransferEncoding(fx.headers) THEN <<"Chunked">>
            ELSE LengthFraming(fx.headers)

\* a request with Transfer-Encoding, Connection: upgrade and Content-Length
C7_Witness ==
    /\ Constructed
    /\ HasTransferEncoding(fx.headers)
    /\ HasConnectionUpgrade(fx.headers)
    /\ LengthFraming(fx.headers) # <<"None">>
    /\ Framing(unwrap(fx.result)) = <<"Upgrade">>

\* C8: when a request has a Transfer-Encoding header its Content-Length is
\* ignored: body_length is None, and the reader is not one that counts its
\* bytes, whatever the value of Content-Length.
C8_ContentLengthIgnored ==
    (Constructed /\ HasTransferEncoding(fx.headers)) =>
        /\ unwrap(fx.result).body_length = None
        /\ unwrap(fx.result).data_reader.kind \in {"chunked", "raw"}
        /\ unwrap(fx.result).data_reader.size = 0
        /\ unwrap(fx.result).consumed = 0

\* a chunked request built from headers with a Content-Length of 3
C8_Witness ==
    /\ Constructed
    /\ HasTransferEncoding(fx.headers)
    /\ LengthFraming(fx.headers) = <<"Length", 3>>
    /\ unwrap(fx.result).data_reader.kind = "chunked"

\* the requests of C9: Content-Length at most the threshold, no Expect,
\* Transfer-Encoding or Connection: upgrade
BufferedBody(r) ==
    /\ is_some(r.body_length) /\ unwrap(r.body_length) <= BufferThreshold
    /\ expects_continue(r.headers) = "none"
    /\ ~HasTransferEncoding(r.headers)
    /\ ~HasConnectionUpgrade(r.headers)

\* C9: for such a request with Content-Length: n the reader of as_reader
\* yields the n bytes that follow the header block, in order, and then the end
\* of the body, however many bytes the client sent after them.
C9_ExactlyContentLengthBytes ==
    \A k \in Requests :
        LET r == req[k]
        IN  (r.st = "held" /\ BufferedBody(r)) =>
                /\ r.got <= unwrap(r.body_length)
                /\ r.got > 0 => r.first = 0
                /\ r.data_reader.kind # "dropped" => r.data_reader.lo = r.got
                /\ r.eof => r.got = unwrap(r.body_length)

\* a body of 2 bytes read in two reads to its end, the client having sent 3
C9_Witness ==
    \E k \in Requests :
        /\ req[k].st = "held" /\ BufferedBody(req[k])
        /\ req[k].body_length = Some(2)
        /\ req[k].short_reads = 1
        /\ req[k].got = 2 /\ req[k].eof

\* the condition of C10 on the request last returned by next()
MayReadOn(version, headers) ==
    LET h == find(headers, "Connection")
        val == IF is_some(h) THEN to_ascii_lowercase(unwrap(h)) ELSE ""
    IN  /\ ~contains(val, "close")
        /\ ~contains(val, "upgrade")
        /\ ~(version = <<1, 0>> /\ ~contains(val, "keep-alive"))

\* C10: having returned request r, the driver goes on to read a further
\* request exactly when r's Connection header contains neither close nor
\* upgrade and r is not an HTTP/1.0 request without keep-alive; when it does not
\* it reads no further header block.
C10_KeepAliveDecision ==
    [][/\ (pc = "next" /\ pc' # "next" /\ is_some(drv.yielded)) =>
              /\ pc' \in {"read", "closing"}
              /\ pc' = "read" <=> MayReadOn(unwrap(drv.yielded)[1], unwrap(drv.yielded)[2])
       /\ pc \in {"closing", "dropping", "closed"} =>
              /\ pc' \in {"closing", "dropping", "closed"}
              /\ nhead' = nhead]_vars

\* the driver read on after the first request and stopped after the second
C10_Witness ==
    /\ pc = "closing" /\ nhead = 2
    /\ no_more_requests /\ ~ceof
    /\ req[1].st # "none" /\ req[2].st # "none"

\* C11: the write half of the socket is shut down when the last holder of the
\* write chain is dropped: not before the driver has given up its sink, never
\* while a Request or a writer obtained from one still has its write slot, and
\* as soon as the driver has ended and every Request of the connection is
\* answered or dropped.
C11_HalfCloseOnLastDrop ==
    /\ write_shutdown => pc \in {"dropping", "closed"}
    /\ write_shutdown =>
           \A k \in Requests :
               /\ ~(req[k].st \in {"queued", "held"} /\ req[k].response_writer)
               /\ req[k].st \notin {"writer", "stream", "driver"}
               /\ req[k].op = "idle"
    /\ (pc \in {"dropping", "closed"} /\ \A k \in Requests : req[k].st \in {"none", "gone"})
           => write_shutdown

\* the driver ended while a request was unanswered; the request has since been
\* answered, and the write half is shut down behind its response
C11_Witness ==
    /\ write_shutdown
    /\ pc = "closed"
    /\ \E k \in Requests :
           /\ req[k].st = "gone" /\ req[k].fate = "responded"
           /\ wire # <<>> /\ wire[Len(wire)].slot = req[k].w

\* chunks on the write stream that belong to no request's response
DriverChunks == {i \in 1..Len(wire) : ResponseOf(wire[i]) = 0}

C13_VersionNotSupportedAnswered ==
    \A j \in 1..MaxSlots :
        (pc = "reject" /\ drv.status = 505 /\ drv.w = j)
            ~> (Written(j, 505, "head") = 1 /\ pc # "reject")

(***************************************************************************)
(* request.rs: respond on its own.  A Request of some method, version and  *)
(* headers is answered with a Response the handler builds with a           *)
(* constructor and add_header or with_header calls.                        *)
(***************************************************************************)
\* add_header and with_header calls on one Response
MaxAddHeader == 2

\* a respond that sends the body whatever the method
body_for_every_method(method) == FALSE

\* respond_impl: do_not_send_body
head_only(method) == method = "HEAD"

PeerClosed == {"BrokenPipe", "ConnectionAborted", "ConnectionRefused", "ConnectionReset"}
ErrorKinds == PeerClosed \cup {"TimedOut", "Other"}

\* respond_impl: what it returns, raw_print and the flush of the writer
\* having returned Ok or an error kind
respond_result(print, flush) ==
    IF print = "Ok" \/ print \in PeerClosed THEN flush ELSE print

\* Response::add_header, Response::with_header
RxAddHeader(header) ==
    /\ rx.result = None
    /\ rx.calls < MaxAddHeader
    /\ rx' = [rx EXCEPT !.response = add_header(rx.response, header),
                        !.calls = rx.calls + 1,
                        !.last = Some(header)]
    /\ UNCHANGED <<pc, no_more_requests, nhead, ahead, ceof, rslot, wslot, nw, wire,
                   req, drv, fx, srv, ext>>

\* Request::respond: raw_print on the request's writer, then its flush
RxRespond(print, flush) ==
    /\ rx.result = None
    /\ LET self == rx.response
           m == message(self, rx.http_version, rx.headers, head_only(rx.method), None)
       IN  rx' = [rx EXCEPT
                    !.encoding = Some(choose_transfer_encoding(rx.headers, rx.http_version,
                                                               self.data_length, FALSE)),
                    !.written = IF print = "Ok" THEN Some(m) ELSE None,
                    !.io = Some([print |-> print, flush |-> flush]),
                    !.result = Some(respond_result(print, flush))]
    /\ UNCHANGED <<pc, no_more_requests, nhead, ahead, ceof, rslot, wslot, nw, wire,
                   req, drv, fx, srv, ext>>

TEChunked == <<"TE", << <<"chunked", <<>>>> >> >>

\* the responses of the handlers: status code, bytes of the reader, data_length
RespondResponses ==
    { Response_new(status_code, <<>>, body[1], body[2]) :
        status_code \in {200, 100, 204, 304},
        body \in {<<0, Some(0)>>, <<5, Some(5)>>, <<5, None>>} }
    \cup { from_string(5),
           Response_new(200, <<<<"Connection", "close">>, <<"Content-Length", "2">>>>,
                        5, None) }

\* the headers the handlers add
RespondHeaders ==
    { <<"Content-Type", "text/html">>, <<"Date", "yesterday">>,
      <<"Accept-Ranges", "bytes">>, <<"Connection", "close">>, <<"connection", "close">>,
      <<"Content-Range", "bytes 0-1/2">>, <<"Trailer", "Expires">>, <<"TRAILER", "Expires">>,
      <<"Transfer-Encoding", "chunked">>, <<"Upgrade", "websocket">>,
      <<"Content-Length", "2">>, <<"CONTENT-LENGTH", "3">>, <<"Content-Length", "two">> }

InitRespond ==
    /\ ConnInit /\ fx = FxIdle /\ srv = SrvInit /\ ExtIdle
    /\ \E method \in {"GET", "HEAD"} : \E http_version \in {<<1, 0>>, <<1, 1>>} :
       \E headers \in {<<>>, <<TEChunked>>} : \E response \in RespondResponses :
          rx = [RxIdle EXCEPT !.method = method, !.http_version = http_version,
                              !.headers = headers, !.response = response]

NextRespond ==
    \/ \E header \in RespondHeaders : RxAddHeader(header)
    \/ RxRespond("Ok", "Ok")

SpecRespond == InitRespond /\ [][NextRespond]_vars

(***************************************************************************)
(* response.rs: choose_transfer_encoding over request versions, TE headers *)
(* and body lengths, as respond calls it.                                  *)
(***************************************************************************)
TE(field, elements) == <<field, elements>>

EncodingHeaders ==
    { <<>>,
      <<<<"Host", "localhost">>>>,
      <<TE("TE", << <<"chunked", <<>>>> >>)>>,
      <<TE("te", << <<"Chunked", <<>>>> >>)>>,
      <<TE("TE", << <<"identity", <<>>>> >>)>>,
      <<TE("TE", << <<"gzip", <<>>>> >>)>>,
      <<TE("TE", << <<"chunked", <<"q=0">>>> >>)>>,
      <<TE("TE", << <<"chunked", <<"level=1", "q=0">>>> >>)>>,
      <<TE("TE", << <<"gzip", <<>>>>, <<" chunked", <<>>>> >>)>>,
      <<TE("TE", << <<"identity", <<"q=0.5">>>>, <<" chunked", <<>>>> >>)>>,
      <<TE("TE", << <<"chunked", <<"q=0.5">>>>, <<" identity", <<" q=0.8">>>> >>)>>,
      <<TE("TE", << <<"chunked", <<"q=0.5">>>>, <<" identity", <<"q=0.5">>>> >>)>>,
      <<TE("TE", << <<"identity", <<"q=0">>>>, <<" gzip", <<"q=1">>>> >>)>> }

\* bytes of the reader and data_length
EncodingBodies ==
    { <<0, Some(0)>>, <<5, Some(5)>>, <<5, None>>,
      <<chunks_threshold - 1, Some(chunks_threshold - 1)>>,
      <<chunks_threshold, Some(chunks_threshold)>> }

InitEncoding ==
    /\ ConnInit /\ fx = FxIdle /\ srv = SrvInit /\ ExtIdle
    /\ \E http_version \in {<<0, 9>>, <<1, 0>>, <<1, 1>>} :
       \E headers \in EncodingHeaders : \E body \in EncodingBodies :
          rx = [RxIdle EXCEPT !.http_version = http_version, !.headers = headers,
                              !.response = Response_new(200, <<>>, body[1], body[2])]

NextEncoding == RxRespond("Ok", "Ok")

SpecEncoding == InitEncoding /\ [][NextEncoding]_vars

(***************************************************************************)
(* request.rs: respond on a connection whose writes may fail, in raw_print *)
(* or in the flush that follows it.                                        *)
(***************************************************************************)
InitRespondIo ==
    /\ ConnInit /\ fx = FxIdle /\ srv = SrvInit /\ ExtIdle
    /\ \E method \in {"GET", "HEAD"} : \E http_version \in {<<1, 0>>, <<1, 1>>} :
       \E response \in {from_string(5), empty(204), Response_new(200, <<>>, 5, None)} :
          rx = [RxIdle EXCEPT !.method = method, !.http_version = http_version,
                              !.response = response]

NextRespondIo ==
    \E print, flush \in {"Ok"} \cup ErrorKinds : RxRespond(print, flush)

SpecRespondIo == InitRespondIo /\ [][NextRespondIo]_vars

(***************************************************************************)
(* C14: the errors of a client connection never reach the caller of recv.  *)
(***************************************************************************)
ErrorsQueued == Cardinality({i \in DOMAIN srv.messages : srv.messages[i].kind = "Error"})

\* C14: every Error message that is in the queue or was returned as Err by
\* recv, try_recv or recv_timeout was pushed by a failing accept; a connection
\* that ended on a parse or transport error has pushed none
C14_OnlyAcceptErrorsReachCaller ==
    /\ ErrorsQueued + srv.recv_errors = srv.accept_errors
    /\ srv.accept_errors = 0 => (ErrorsQueued = 0 /\ srv.recv_errors = 0)

\* a connection ended on a read error and was dropped, the accept thread
\* failed, and recv returned the accept error
C14_Witness ==
    /\ pc \in {"dropping", "closed"}
    /\ drv.err \in {"WrongRequestLine", "WrongHeader", "TimedOut", "ExpectationFailed",
                     "ReadIoError"}
    /\ srv.accept_errors = 1
    /\ srv.recv_errors = 1

(***************************************************************************)
(* C15, C16: responses that carry no body.                                 *)
(***************************************************************************)
\* what respond would write for the same response to a GET of the same
\* version and headers
AsForGet ==
    message(rx.response, rx.http_version, rx.headers, head_only("GET"), None)

\* C15: the response written to a HEAD request is the status line and the
\* header block the same response carries for a GET, followed by no body
\* byte, whatever body the handler supplied and whichever encoding was chosen
C15_HeadResponseHasNoBody ==
    (rx.method = "HEAD" /\ is_some(rx.written)) =>
        LET m == unwrap(rx.written)
        IN  /\ m.body = <<>>
            /\ m.version = AsForGet.version
            /\ m.status_code = AsForGet.status_code
            /\ m.headers = AsForGet.headers

\* a HEAD request was answered with a 200 whose body a GET would have got
\* in chunks
C15_Witness ==
    /\ rx.method = "HEAD"
    /\ is_some(rx.written)
    /\ rx.response.status_code = 200
    /\ rx.response.reader >= 1
    /\ rx.encoding = Some(Chunked)
    /\ AsForGet.body # <<>>
    /\ unwrap(rx.written).headers = AsForGet.headers

\* C16: a response whose status code is 1xx, 204 or 304 is written with no
\* body byte after its header block, even if the handler supplied a body, for
\* every request method and transfer encoding
C16_NoBodyFor1xx204304 ==
    (is_some(rx.written) /\ (rx.response.status_code \in 100..199
                              \/ rx.response.status_code \in {204, 304})) =>
        unwrap(rx.written).body = <<>>

\* a GET was answered with a 204 that was given a body of unknown length,
\* the encoding being Chunked
C16_Witness ==
    /\ rx.method = "GET"
    /\ is_some(rx.written)
    /\ rx.response.status_code = 204
    /\ rx.response.reader >= 1
    /\ rx.response.data_length = None
    /\ rx.encoding = Some(Chunked)
    /\ unwrap(rx.written).body = <<>>

(***************************************************************************)
(* C17: the headers a Response keeps.                                      *)
(***************************************************************************)
ReservedFields ==
    {"accept-ranges", "connection", "content-range", "trailer", "transfer-encoding",
     "upgrade", "content-length"}

Reserved(header) == to_ascii_lowercase(header[1]) \in ReservedFields

\* the headers of these names that raw_print itself adds to a response
\* without upgrade
Synthesized ==
    IF rx.encoding = Some(Chunked) THEN << <<"Transfer-Encoding", "chunked">> >>
    ELSE << <<"Content-Length", IF is_some(rx.response.data_length)
                                THEN unwrap(rx.response.data_length)
                                ELSE rx.response.reader>> >>

\* C17: whatever the construction and the add_header and with_header calls, the
\* stored headers hold no Accept-Ranges, Connection, Content-Range, Trailer,
\* Transfer-Encoding, Upgrade or Content-Length field in any case of letters;
\* the response written carries of these only the headers raw_print itself
\* adds; and adding a Content-Length header with a numeric value changes the
\* stored body length and nothing else
C17_ReservedHeadersNotStored ==
    /\ [](/\ is_some(rx.response) =>
              \A i \in DOMAIN rx.response.headers : ~Reserved(rx.response.headers[i])
          /\ is_some(rx.written) =>
              SelectSeq(unwrap(rx.written).headers, Reserved) = Synthesized)
    /\ [][(rx'.calls = rx.calls + 1
           /\ to_ascii_lowercase(unwrap(rx'.last)[1]) = "content-length"
           /\ is_some(from_str_usize(unwrap(rx'.last)[2])))
          => rx'.response = [rx.response EXCEPT
                               !.data_length = from_str_usize(unwrap(rx'.last)[2])]]_vars

\* a response over a reader of 5 bytes was given a CONTENT-LENGTH header of 3
\* by add_header: it stores no header, and the length 3
C17_Witness ==
    /\ is_some(rx.response)
    /\ rx.response.reader = 5
    /\ rx.last = Some(<<"CONTENT-LENGTH", "3">>)
    /\ rx.response.headers = <<>>
    /\ rx.response.data_length = Some(3)
    /\ rx.calls = 1

(***************************************************************************)
(* C18: the transfer encoding of a response.                               *)
(***************************************************************************)
\* the elements of the request's TE header, <<>> without one
TEElements ==
    IF is_some(find(rx.headers, "TE")) THEN unwrap(find(rx.headers, "TE")) ELSE <<>>

\* the elements that name chunked or identity with a q above 0
Acceptable ==
    {i \in DOMAIN TEElements :
        /\ quality(TEElements[i][2]) > 0
        /\ to_ascii_lowercase(trim(TEElements[i][1])) \in {"chunked", "identity"}}

\* the one the client prefers: the highest q, the first of those in the header
Preferred ==
    CHOOSE i \in Acceptable :
        \A j \in Acceptable :
            \/ quality(TEElements[i][2]) > quality(TEElements[j][2])
            \/ (quality(TEElements[i][2]) = quality(TEElements[j][2]) /\ i <= j)

Asks(name) ==
    Acceptable # {} /\ to_ascii_lowercase(trim(TEElements[Preferred][1])) = name

LengthAsksChunked ==
    \/ rx.response.data_length = None
    \/ unwrap(rx.response.data_length) >= 32768

Failures == {unwrap(rx.io).print, unwrap(rx.io).flush} \ {"Ok"}

\* C19: respond returns Ok whenever the sending of the response (header, body
\* or final flush) fails with BrokenPipe, ConnectionReset, ConnectionRefused
\* or ConnectionAborted, and an error when it fails with any other kind
C19_PeerClosedErrorsSwallowed ==
    is_some(rx.result) =>
        LET swallowed == {"BrokenPipe", "ConnectionReset", "ConnectionRefused",
                          "ConnectionAborted"}
        IN  /\ (Failures # {} /\ Failures \subseteq swallowed) => unwrap(rx.result) = "Ok"
            /\ (Failures \ swallowed # {}) => unwrap(rx.result) # "Ok"

(***************************************************************************)
(* C20: when the next request of a connection is delivered.                *)
(***************************************************************************)
\* request k came without a body, or with one that new_request buffered: no
\* Transfer-Encoding, and no Content-Length, one of 0, or one of at most
\* 1024 without Expect: 100-continue
AbsentOrBuffered(k) ==
    LET h == req[k].headers
        cl == IF is_some(find(h, "Content-Length"))
              THEN from_str_usize(unwrap(find(h, "Content-Length"))) ELSE None
        expect == /\ is_some(find(h, "Expect"))
                  /\ to_ascii_lowercase(unwrap(find(h, "Expect"))) = "100-continue"
    IN  /\ ~is_some(find(h, "Transfer-Encoding"))
        /\ \/ cl = None
           \/ unwrap(cl) = 0
           \/ (unwrap(cl) <= 1024 /\ ~expect)

Unanswered(k) == req[k].st \in {"queued", "held"} /\ req[k].op = "idle"

BodyReaderDropped(k) == req[k].st = "gone" \/ req[k].data_reader = NoReader

InFlight == {k \in Requests : req[k].st \in {"queued", "held", "writer", "stream"}}

\* C21: on a TLS connection at most one Request is in flight, in the queue
\* or with the caller, at any time, and the driver ends the read of the
\* header block of request k+1 and pushes it only when the notification for
\* request k has been sent
C21_OneRequestInFlight ==
    /\ [](secure => Cardinality(InFlight) <= 1)
    /\ [][(secure /\ nhead >= 1 /\ nhead' = nhead + 1) => notified(nhead)]_vars

\* the first request has been answered, its notification received, and the
\* second one is with its handler while the client has sent a third
C21_Witness ==
    /\ secure
    /\ req[1].st = "gone" /\ req[1].fate = "responded"
    /\ req[2].st = "held"
    /\ pc = "ack"
    /\ InFlight = {2}

(***************************************************************************)
(* util/messages_queue.rs: the queue of the server on its own, with        *)
(* producers (the accept thread, the connection tasks) and consumers (the  *)
(* callers of recv, try_recv, recv_timeout).  Every section of code that   *)
(* runs with the mutex held is one step.                                   *)
(***************************************************************************)
MaxPush == 3
MaxUnblock == 1

\* what the deque holds: a pushed value, or the mark unblock() leaves
Elem(v) == [kind |-> "Elem", v |-> v]
Unblock == [kind |-> "Unblock", v |-> 0]

\* VecDeque::pop_front, and what it leaves
pop_back(queue) == IF queue = <<>> THEN None ELSE Some(queue[Len(queue)])
pop_front(queue) == IF queue = <<>> THEN None ELSE Some(Head(queue))
rest(queue) == IF queue = <<>> THEN <<>> ELSE Tail(queue)

\* what pop, try_pop and pop_timeout return for the element they took
control(e) == IF e.kind = "Elem" THEN Some(e.v) ELSE None

\* Server::recv: None from pop is the error "thread unblocked"
recv_never_fails(popped) == "Ok"
recv(popped) == IF is_some(popped) THEN "Ok" ELSE "Err"

Waiting(cv) == {c \in DOMAIN cv : cv[c] \in {"wait", "twait"}}
Woken(cv) == {c \in DOMAIN cv : cv[c] \in {"woken", "twoken"}}

\* Condvar::notify_one: one thread of the wait set, if there is one, is woken
notify_one(cv) ==
    IF Waiting(cv) = {} THEN {cv}
    ELSE {[cv EXCEPT ![w] = IF cv[w] = "wait" THEN "woken" ELSE "twoken"] : w \in Waiting(cv)}

\* the call op of consumer c returns ret
returned(m, c, op, ret) ==
    [m EXCEPT !.cv[c] = "idle",
              !.out = IF is_some(ret) THEN Append(m.out, unwrap(ret)) ELSE m.out,
              !.errs = IF op = "pop" /\ recv(ret) = "Err" THEN m.errs + 1 ELSE m.errs,
              !.last = [op |-> op, by |-> c, ret |-> ret, seq |-> 1 - m.last.seq]]

\* one turn of the loop of pop: an element is returned, or the thread waits
pop_loop(m, c) ==
    LET e == pop_front(m.queue)
    IN  IF is_some(e)
        THEN returned([m EXCEPT !.queue = rest(m.queue)], c, "pop", control(unwrap(e)))
        ELSE [m EXCEPT !.cv[c] = "wait"]

\* one turn of the loop of pop_timeout, up to wait_timeout
pop_timeout_loop(m, c) ==
    LET e == pop_front(m.queue)
    IN  IF is_some(e)
        THEN returned([m EXCEPT !.queue = rest(m.queue)], c, "pop_timeout", control(unwrap(e)))
        ELSE [m EXCEPT !.cv[c] = "twait"]

\* pop_timeout after wait_timeout: None when the wait timed out or when less
\* than a millisecond of the duration is left, another turn otherwise
after_wait_timeout(m, c, timed_out, exhausted) ==
    IF timed_out \/ exhausted
    THEN returned(m, c, "pop_timeout", None)
    ELSE pop_timeout_loop(m, c)

MqOnly == UNCHANGED <<conn, fx, srv, rx, secure, tp, acc, hp, ut>>

\* MessagesQueue::push
MqPush ==
    /\ mq.pushed < MaxPush
    /\ \E cv \in notify_one(mq.cv) :
          mq' = [mq EXCEPT !.queue = push(mq.queue, Elem(mq.pushed + 1)),
                           !.pushed = mq.pushed + 1,
                           !.cv = cv]
    /\ MqOnly

\* MessagesQueue::unblock
MqUnblock ==
    /\ mq.unblocks < MaxUnblock
    /\ \E cv \in notify_one(mq.cv) :
          mq' = [mq EXCEPT !.queue = push(mq.queue, Unblock),
                           !.unblocks = mq.unblocks + 1,
                           !.cv = cv]
    /\ MqOnly

\* MessagesQueue::pop is called
MqPop(c) ==
    /\ mq.cv[c] = "idle"
    /\ mq' = pop_loop(mq, c)
    /\ MqOnly

\* MessagesQueue::pop: condvar.wait returns
MqPopWoken(c) ==
    /\ mq.cv[c] = "woken"
    /\ mq' = pop_loop(mq, c)
    /\ MqOnly

\* MessagesQueue::try_pop
MqTryPop(c) ==
    /\ mq.cv[c] = "idle"
    /\ LET e == pop_front(mq.queue)
       IN  mq' = returned([mq EXCEPT !.queue = rest(mq.queue)], c, "try_pop",
                          IF is_some(e) THEN control(unwrap(e)) ELSE None)
    /\ MqOnly

\* MessagesQueue::pop_timeout is called
MqPopTimeout(c) ==
    /\ mq.cv[c] = "idle"
    /\ mq' = pop_timeout_loop(mq, c)
    /\ MqOnly

\* MessagesQueue::pop_timeout: wait_timeout returns because the time is up
MqTimedOut(c) ==
    /\ mq.cv[c] = "twait"
    /\ mq' = after_wait_timeout(mq, c, TRUE, TRUE)
    /\ MqOnly

\* MessagesQueue::pop_timeout: wait_timeout returns because of a notification,
\* with or without a millisecond of the duration left
MqTimeoutWoken(c) ==
    /\ mq.cv[c] = "twoken"
    /\ \E exhausted \in BOOLEAN : mq' = after_wait_timeout(mq, c, FALSE, exhausted)
    /\ MqOnly

NextQueue ==
    \/ MqPush
    \/ \E c \in Threads :
          \/ MqPop(c)
          \/ MqPopWoken(c)
          \/ MqTryPop(c)
          \/ MqPopTimeout(c)
          \/ MqTimedOut(c)
          \/ MqTimeoutWoken(c)

SpecQueue == Init /\ [][NextQueue]_vars

ElemsQueued == Cardinality({i \in DOMAIN mq.queue : mq.queue[i].kind = "Elem"})
UnblocksQueued == Cardinality({i \in DOMAIN mq.queue : mq.queue[i].kind = "Unblock"})

\* C22: the values come out in the order they were pushed, each at most once
\* and none dropped (a pushed value is in the queue or was returned by one
\* call); try_pop returns None exactly when the queue is empty; and no value
\* is left in the queue while a consumer sleeps in pop and no woken consumer is
\* on its way to the queue, so that each pushed value is returned to a call
\* that waits for it
C22_QueueDelivers ==
    /\ [](/\ \A i \in DOMAIN mq.out : mq.out[i] = i
          /\ Len(mq.out) + ElemsQueued = mq.pushed
          /\ (mq.queue # <<>> /\ Waiting(mq.cv) # {}) => Woken(mq.cv) # {})
    /\ [][(mq'.last # mq.last /\ mq'.last.op = "try_pop")
            => (mq'.last.ret = None <=> mq.queue = <<>>)]_vars

(***************************************************************************)
(* Server::unblock with threads in recv.                                   *)
(***************************************************************************)
NextUnblock ==
    \/ MqPush
    \/ MqUnblock
    \/ \E c \in Threads : MqPop(c) \/ MqPopWoken(c)

SpecUnblock == Init /\ [][NextUnblock]_vars

Moved == {c \in Threads : mq'.cv[c] # mq.cv[c]}

\* C23: a call of unblock wakes one of the threads that sleep in recv and
\* leaves the others asleep; it makes exactly one recv return the error
\* "thread unblocked" (the calls that returned it and the marks still queued
\* add up to the calls of unblock), and the thread that returns it moves
\* alone; every request pushed before or after is in the queue or was
\* returned, in order, and none is left queued while a thread sleeps and no
\* woken thread is on its way
C23_UnblockReleasesOne ==
    /\ [](/\ mq.errs + UnblocksQueued = mq.unblocks
          /\ \A i \in DOMAIN mq.out : mq.out[i] = i
          /\ Len(mq.out) + ElemsQueued = mq.pushed
          /\ (mq.queue # <<>> /\ Waiting(mq.cv) # {}) => Woken(mq.cv) # {})
    /\ [][((mq'.unblocks # mq.unblocks)
               => (Cardinality(Moved) = (IF Waiting(mq.cv) = {} THEN 0 ELSE 1)))
           /\ ((mq'.errs # mq.errs) => (Moved \subseteq {mq'.last.by}))]_vars

\* both threads slept in recv; after one unblock and two requests, h1 has
\* returned the error and h2, which took the requests, sleeps again
C23_Witness ==
    /\ mq.unblocks = 1 /\ mq.errs = 1
    /\ mq.last = [op |-> "pop", by |-> "h1", ret |-> None, seq |-> 1]
    /\ mq.cv["h2"] = "wait"
    /\ mq.out = <<1, 2>>
    /\ mq.queue = <<>>

(***************************************************************************)
(* lib.rs: the accept thread of Server::from_listener and Drop for Server. *)
(* A client connection takes two descriptors (the accepted socket and its  *)
(* try_clone); the process may hold FdLimit of them.                       *)
(***************************************************************************)
MaxConn == 3
FdLimit == 4

\* the Requests the connection's driver has yielded
Yielded == Cardinality({k \in Requests : req[k].st # "none"})

AccOnly == UNCHANGED <<conn, fx, srv, rx, secure, mq, tp, hp, ut>>
TpOnly == UNCHANGED <<conn, fx, srv, rx, secure, mq, acc, hp, ut>>

\* the condition of the accept loop
loop_forever(close) == TRUE
loop_test(close) == ~close

\* a client connects: the connection waits in the listener's queue
ClientConnect ==
    /\ acc.connected < MaxConn
    /\ acc' = [acc EXCEPT !.connected = acc.connected + 1,
                          !.backlog = Append(acc.backlog, "client")]
    /\ AccOnly

\* while !inside_close_trigger.load(Relaxed)
AccLoopTest ==
    /\ acc.pc = "head"
    /\ acc' = [acc EXCEPT !.pc = IF loop_test(acc.close) THEN "accept" ELSE "terminated",
                          !.observed = acc.close]
    /\ AccOnly

\* one turn of the loop once a connection waits: server.accept(), then
\* RefinedTcpStream::new, then tasks_pool.spawn.  Without a free descriptor
\* accept returns Err, which is pushed and ends the loop; without a second one
\* try_clone().unwrap() panics; a thread that cannot be created panics in
\* thread::spawn.  A panic unwinds the accept thread and drops the socket
AccAccept(thread_spawned) ==
    /\ acc.pc = "accept"
    /\ acc.backlog # <<>>
    /\ acc' =
         IF acc.fds >= FdLimit
         THEN [acc EXCEPT !.pc = "terminated", !.errors = acc.errors + 1,
                          !.limit_hits = acc.limit_hits + 1]
         ELSE IF acc.fds + 1 >= FdLimit
         THEN [acc EXCEPT !.pc = "panicked", !.backlog = Tail(acc.backlog),
                          !.limit_hits = acc.limit_hits + 1]
         ELSE IF ~thread_spawned
         THEN [acc EXCEPT !.pc = "panicked", !.backlog = Tail(acc.backlog),
                          !.limit_hits = acc.limit_hits + 1]
         ELSE [acc EXCEPT !.pc = "head", !.backlog = Tail(acc.backlog),
                          !.fds = acc.fds + 2, !.open = acc.open + 1,
                          !.accepted = acc.accepted + 1,
                          !.after_observed = acc.after_observed + (IF acc.observed THEN 1 ELSE 0)]
    /\ AccOnly

\* a connection ends (its client closed it, or it was the connection of Drop
\* for Server, shut down at once): its task drops both halves of the stream
ConnEnd ==
    /\ acc.open > 0
    /\ acc' = [acc EXCEPT !.open = acc.open - 1, !.fds = acc.fds - 2]
    /\ AccOnly

\* Drop for Server: self.close.store(true, Relaxed)
ServerDropFlag ==
    /\ acc.dropped = "no"
    /\ acc' = [acc EXCEPT !.close = TRUE, !.dropped = "flag", !.at_close = Yielded]
    /\ AccOnly

\* Drop for Server: TcpStream::connect(self.listening_addr), and shutdown of
\* the stream if the connection was made
ServerDropConnect(connected) ==
    /\ acc.dropped = "flag"
    /\ acc' = [acc EXCEPT !.dropped = "done",
                          !.wake = IF connected THEN "sent" ELSE "failed",
                          !.backlog = IF connected THEN Append(acc.backlog, "wakeup")
                                      ELSE acc.backlog]
    /\ AccOnly

AccThread == AccLoopTest \/ \E thread_spawned \in BOOLEAN : AccAccept(thread_spawned)

NextAccept ==
    \/ ClientConnect
    \/ AccLoopTest
    \/ \E thread_spawned \in BOOLEAN : AccAccept(thread_spawned)
    \/ ConnEnd
    \/ ServerDropFlag
    \/ \E connected \in BOOLEAN : ServerDropConnect(connected)

SpecAccept == Init /\ [][NextAccept]_vars

\* the accept thread takes every step it can take
FairAccept == SpecAccept /\ WF_vars(AccThread)

\* C24: a failure of accept or of the connection's setup that comes from a
\* resource limit leaves the accept thread in its loop, as long as the Server
\* has not been dropped
C24_AcceptLoopSurvivesLimits ==
    (acc.limit_hits > 0 /\ ~acc.close) => acc.pc \in {"head", "accept"}

\* C25: once the accept thread has read the close flag as set it accepts no
\* connection; and when the Server has been dropped and the connection of its
\* destructor to the listener has been made, the accept thread leaves its loop
\* and ends
C25_AcceptThreadStops ==
    /\ [][acc.observed => acc'.accepted = acc.accepted]_vars
    /\ (acc.wake = "sent") ~> (acc.pc \in {"terminated", "panicked"})

\* the thread was blocked in accept when the Server was dropped: it accepted
\* a client and the destructor's connection, then read the flag and ended
C25_Witness ==
    /\ acc.wake = "sent"
    /\ acc.observed /\ acc.pc = "terminated"
    /\ acc.accepted = 2 /\ acc.backlog = <<>>
    /\ acc.limit_hits = 0

(***************************************************************************)
(* A client connection that is open while the Server is dropped: the       *)
(* client goes on sending requests, handlers answer the requests they hold.*)
(***************************************************************************)
\* Server::recv needs the Server
RecvAlive(t) == acc.dropped = "no" /\ Recv(t)

NextShutdown ==
    \/ Driver({Plain}, MaxReq)
    \/ \E t \in Threads :
        \/ RecvAlive(t)
        \/ \E k \in Requests :
            \/ \E response \in UserResponses : Respond(t, k, response)
            \/ DropRequest(t, k)
    \/ \E k \in Requests : Write(k)
    \/ ServerDropFlag
    \/ \E connected \in BOOLEAN : ServerDropConnect(connected)

SpecShutdown == Init /\ [][NextShutdown]_vars

\* C26: once the Server is dropped and the close flag is set, the driver of
\* a client connection stops yielding Requests (it yields at most the one it
\* was reading when the flag was set) whatever the client still sends, its
\* reading part being closed
C26_DriversStopAfterClose ==
    acc.close => Yielded <= acc.at_close + 1

(***************************************************************************)
(* util/task_pool.rs: spawn, add_thread and the worker threads.  The       *)
(* counters are atomics changed outside the todo lock by a worker that     *)
(* starts or ends; what runs with the lock held is one step, except spawn, *)
(* which tests the counters and then calls add_thread, which tests again.  *)
(***************************************************************************)
Live(p) == {i \in Workers : p.w[i].st \notin {"unborn", "exited"}}
Unborn(p) == {i \in Workers : p.w[i].st = "unborn"}
Asleep(p) == {i \in Workers : p.w[i].st \in {"wait", "twait"}}

\* Condvar::notify_one on the pool's condvar
tp_notify_one(p) ==
    IF Asleep(p) = {} THEN {p}
    ELSE {[p EXCEPT !.w[i].st = "woken"] : i \in Asleep(p)}

\* spawn: a thread is to be added for the task (otherwise it is queued)
spawn_adds_thread(p) == p.active_tasks < p.thread_count /\ p.waiting_tasks = 0

\* add_thread: the early return
add_thread_returns(p) == p.active_tasks >= p.thread_count

\* the worker's choice between wait and wait_timeout
waits_for_ever(p) == p.active_tasks <= 1

\* the worker's inner loop with the todo lock held: a task is taken, or the
\* worker registers as waiting and waits
take_or_wait(p, i) ==
    IF p.todo # <<>>
    THEN [p EXCEPT !.todo = Tail(p.todo),
                   !.w[i] = [st |-> "busy", task |-> Head(p.todo)],
                   !.t[Head(p.todo)] = "running"]
    ELSE LET q == [p EXCEPT !.waiting_tasks = p.waiting_tasks + 1]
         IN  [q EXCEPT !.w[i].st = IF waits_for_ever(q) THEN "wait" ELSE "twait"]

\* TaskPool::spawn up to its choice
TpSpawn(k) ==
    /\ tp.sp = 0
    /\ k = tp.spawned + 1
    /\ Unborn(tp) # {}
    /\ IF spawn_adds_thread(tp)
       THEN tp' = [tp EXCEPT !.sp = k, !.spawned = k, !.t[k] = "spawning"]
       ELSE tp' \in tp_notify_one([tp EXCEPT !.todo = Append(tp.todo, k), !.spawned = k,
                                            !.t[k] = "queued"])
    /\ TpOnly

\* TaskPool::add_thread(Some(code)) called by spawn
TpAddThread ==
    /\ tp.sp # 0
    /\ IF add_thread_returns(tp)
       THEN tp' = [tp EXCEPT !.sp = 0, !.t[tp.sp] = "dropped"]
       ELSE LET i == CHOOSE i \in Unborn(tp) : \A j \in Unborn(tp) : i <= j
            IN  tp' = [tp EXCEPT !.sp = 0, !.t[tp.sp] = "initial",
                                 !.w[i] = [st |-> "started", task |-> tp.sp]]
    /\ TpOnly

\* the new thread: Registration::new(&sharing.active_tasks)
WkRegister(i) ==
    /\ tp.w[i].st = "started"
    /\ tp' = [tp EXCEPT !.active_tasks = tp.active_tasks + 1, !.w[i].st = "registered"]
    /\ TpOnly

\* the new thread runs its initial function, if it has one
WkInitial(i) ==
    /\ tp.w[i].st = "registered"
    /\ LET k == tp.w[i].task
       IN  tp' = IF k = 0 THEN [tp EXCEPT !.w[i].st = "loop"]
                 ELSE [tp EXCEPT !.w[i] = [st |-> "loop", task |-> 0],
                                 !.t[k] = "done", !.runs[k] = tp.runs[k] + 1]
    /\ TpOnly

\* the worker locks todo and looks for a task
WkPop(i) ==
    /\ tp.w[i].st = "loop"
    /\ tp.sp = 0
    /\ tp' = take_or_wait(tp, i)
    /\ TpOnly

\* the worker executes the task it took
WkRun(i) ==
    /\ tp.w[i].st = "busy"
    /\ LET k == tp.w[i].task
       IN  tp' = [tp EXCEPT !.w[i] = [st |-> "loop", task |-> 0],
                           !.t[k] = "done", !.runs[k] = tp.runs[k] + 1]
    /\ TpOnly

\* wait or wait_timeout returns after a notification: the waiting
\* registration is dropped and the inner loop takes another turn
WkWoken(i) ==
    /\ tp.w[i].st = "woken"
    /\ tp.sp = 0
    /\ tp' = take_or_wait([tp EXCEPT !.waiting_tasks = tp.waiting_tasks - 1], i)
    /\ TpOnly

\* the time of wait_timeout is up: the worker leaves the wait
WkTimeout(i) ==
    /\ tp.w[i].st = "twait"
    /\ tp' = [tp EXCEPT !.w[i].st = "timedout"]
    /\ TpOnly

\* wait_timeout returns timed out, with the lock: the worker returns, which
\* drops its waiting registration
WkReturn(i) ==
    /\ tp.w[i].st = "timedout"
    /\ tp.sp = 0
    /\ tp' = [tp EXCEPT !.waiting_tasks = tp.waiting_tasks - 1, !.w[i].st = "exiting"]
    /\ TpOnly

\* the thread ends: its active registration is dropped
WkExit(i) ==
    /\ tp.w[i].st = "exiting"
    /\ tp' = [tp EXCEPT !.active_tasks = tp.active_tasks - 1, !.w[i].st = "exited"]
    /\ TpOnly

NextPool ==
    \/ \E k \in Tasks : TpSpawn(k)
    \/ TpAddThread
    \/ \E i \in Workers :
        \/ WkRegister(i)
        \/ WkInitial(i)
        \/ WkPop(i)
        \/ WkRun(i)
        \/ WkWoken(i)
        \/ WkTimeout(i)
        \/ WkReturn(i)
        \/ WkExit(i)

InitPool ==
    /\ ConnInit /\ fx = FxIdle /\ srv = SrvInit /\ rx = RxIdle
    /\ secure = FALSE /\ mq = MqIdle /\ acc = AccIdle /\ hp = HpIdle /\ ut = UtIdle
    /\ \E thread_count \in PoolSizes : tp = TaskPool_new(thread_count)

SpecPool == InitPool /\ [][NextPool]_vars

\* a pool of MaxWorkers threads that is given no task: its workers start,
\* find nothing to do, wait and time out
NextIdlePool ==
    \E i \in Workers :
        \/ WkRegister(i)
        \/ WkInitial(i)
        \/ WkPop(i)
        \/ WkTimeout(i)
        \/ WkReturn(i)
        \/ WkExit(i)

InitIdlePool ==
    /\ ConnInit /\ fx = FxIdle /\ srv = SrvInit /\ rx = RxIdle
    /\ secure = FALSE /\ mq = MqIdle /\ acc = AccIdle /\ hp = HpIdle /\ ut = UtIdle
    /\ tp = TaskPool_new(MaxWorkers)

SpecIdlePool == InitIdlePool /\ [][NextIdlePool]_vars

\* C27: no task given to spawn is dropped without having run, none runs
\* twice, and none is left in the queue while every live worker sleeps or
\* is on its way out, so that each task is executed exactly once
C27_EveryTaskRunsOnce ==
    /\ \A k \in Tasks : tp.t[k] # "dropped" /\ tp.runs[k] <= 1
    /\ (tp.todo # <<>> /\ tp.sp = 0)
          => \E i \in Workers : tp.w[i].st \in {"started", "registered", "busy", "loop", "woken"}

\* C28: the worker threads of a pool that are alive never number more than
\* its thread_count
C28_WorkersWithinThreadCount ==
    Cardinality(Live(tp)) <= tp.thread_count

\* C29: a worker whose wait timed out returns only while more than
\* MIN_THREADS workers are running, and a pool that has MIN_THREADS running
\* workers keeps that many
C29_PoolKeepsMinimum ==
    /\ [][\A i \in Workers :
            (tp.w[i].st = "timedout" /\ tp'.w[i].st = "exiting") => tp.active_tasks > MIN_THREADS]_vars
    /\ [][tp.active_tasks >= MIN_THREADS => tp'.active_tasks >= MIN_THREADS]_vars

(***************************************************************************)
(* common.rs and client.rs: the header lines of a request.  A line is the  *)
(* sequence of its pieces: names and values are single pieces, a blank and *)
(* a colon are pieces of their own, so that splitting at the colon and     *)
(* trimming are computed as the code computes them.                        *)
(***************************************************************************)
MaxLines == 2

HeaderLines ==
    { <<"Host", ":", " ", "localhost">>,
      <<"Content-Length", ":", " ", "5">>,
      <<"Content-Length", " ", ":", " ", "5">>,
      <<"Content", " ", "Length", ":", "5">>,
      <<"Connection", ":", "close", " ">>,
      <<"Host", " ", "localhost">> }

\* str::trim
RECURSIVE trim_start(_)
trim_start(s) == IF s # <<>> /\ Head(s) = " " THEN trim_start(Tail(s)) ELSE s
RECURSIVE trim_end(_)
trim_end(s) ==
    IF s # <<>> /\ s[Len(s)] = " " THEN trim_end(SubSeq(s, 1, Len(s) - 1)) ELSE s
str_trim(s) == trim_end(trim_start(s))

\* str::splitn(2, ':')
splitn(s) ==
    LET at == {i \in DOMAIN s : s[i] = ":"}
    IN  IF at = {} THEN <<s>>
        ELSE LET i == CHOOSE i \in at : \A j \in at : i <= j
             IN  <<SubSeq(s, 1, i - 1), SubSeq(s, i + 1, Len(s))>>

\* FromStr for HeaderField: the line is ASCII already (read_next_line), so
\* from_ascii succeeds
HeaderField_from_str(s) == Some(str_trim(s))

\* FromStr for Header
Header_from_str(input) ==
    LET elems == splitn(input)
    IN  IF Len(elems) < 2 THEN None
        ELSE LET field == HeaderField_from_str(elems[1])
             IN  IF ~is_some(field) THEN None
                 ELSE Some(<<unwrap(field), str_trim(elems[2])>>)

HpOnly == UNCHANGED <<conn, fx, srv, rx, secure, mq, tp, acc, ut>>

\* ClientConnection::read, one turn of the loop over the header lines
HpReadLine ==
    /\ hp.result = "-"
    /\ hp.lines # <<>>
    /\ LET h == Header_from_str(str_trim(Head(hp.lines)))
       IN  hp' = IF is_some(h)
                 THEN [hp EXCEPT !.lines = Tail(hp.lines),
                                 !.headers = Append(hp.headers, unwrap(h))]
                 ELSE [hp EXCEPT !.lines = Tail(hp.lines), !.result = "WrongHeader"]
    /\ HpOnly

\* ClientConnection::read: the empty line ends the header block
HpEndOfHead ==
    /\ hp.result = "-"
    /\ hp.lines = <<>>
    /\ hp' = [hp EXCEPT !.result = "Ok"]
    /\ HpOnly

\* ClientConnection::next: Err(WrongHeader) is answered with 400 and ends
\* the iteration, Ok(rq) is returned
HpNext ==
    /\ hp.result \in {"Ok", "WrongHeader"}
    /\ ~hp.delivered /\ ~hp.closed
    /\ hp' = IF hp.result = "WrongHeader"
             THEN [hp EXCEPT !.status = 400, !.closed = TRUE]
             ELSE [hp EXCEPT !.delivered = TRUE]
    /\ HpOnly

NextHeaderLines == HpReadLine \/ HpEndOfHead \/ HpNext

InitHeaderLines ==
    /\ ConnInit /\ fx = FxIdle /\ srv = SrvInit /\ rx = RxIdle
    /\ secure = FALSE /\ mq = MqIdle /\ tp = TpIdle /\ acc = AccIdle /\ ut = UtIdle
    /\ \E n \in 1..MaxLines : \E sent \in [1..n -> HeaderLines] :
          hp = [HpIdle EXCEPT !.sent = sent, !.lines = sent]

SpecHeaderLines == InitHeaderLines /\ [][NextHeaderLines]_vars

\* the field name of the line, all that precedes its colon, holds a blank
invalid_field_name(line) ==
    LET elems == splitn(line)
    IN  Len(elems) = 2 /\ \E i \in DOMAIN elems[1] : elems[1][i] = " "

\* C30: a request with a header line whose field name holds a blank is not
\* delivered to the caller; when the driver is done with it, it has answered
\* 400 and ended the connection
C30_BlankInFieldNameRejected ==
    (\E i \in DOMAIN hp.sent : invalid_field_name(hp.sent[i]))
        => /\ ~hp.delivered
           /\ hp.result # "Ok"
           /\ hp.closed => hp.status = 400

(***************************************************************************)
(* client.rs: header lines of any length.  read_next_line collects the     *)
(* bytes of a line up to CRLF whatever their number, and read collects     *)
(* lines up to the empty one whatever their number.  "X*n" is a value of   *)
(* n bytes.                                                                *)
(***************************************************************************)
MaxSizedLines == 5

SizedLines ==
    { <<"Host", ":", " ", "localhost">>,
      <<"X-A-Too-Long-Field", ":", " ", "X*2028">>,
      <<"X-A-Too-Long-Field", ":", " ", "X*2029">> }

\* the number of bytes of a piece of a line
byte_len(piece) ==
    CASE piece = "Host"               -> 4
      [] piece = "localhost"          -> 9
      [] piece = "X-A-Too-Long-Field" -> 18
      [] piece = "X*2028"             -> 2028
      [] piece = "X*2029"             -> 2029
      [] OTHER                        -> 1

RECURSIVE line_len(_)
line_len(line) == IF line = <<>> THEN 0 ELSE byte_len(Head(line)) + line_len(Tail(line))

\* the bytes of the header lines with their CRLF
RECURSIVE block_len(_)
block_len(lines) == IF lines = <<>> THEN 0 ELSE line_len(Head(lines)) + 2 + block_len(Tail(lines))

InitHeaderSizes ==
    /\ ConnInit /\ fx = FxIdle /\ srv = SrvInit /\ rx = RxIdle
    /\ secure = FALSE /\ mq = MqIdle /\ tp = TpIdle /\ acc = AccIdle /\ ut = UtIdle
    /\ \E n \in 1..MaxSizedLines : \E sent \in [1..n -> SizedLines] :
          hp = [HpIdle EXCEPT !.sent = sent, !.lines = sent]

NextHeaderSizes == HpReadLine \/ HpEndOfHead \/ HpNext

SpecHeaderSizes == InitHeaderSizes /\ [][NextHeaderSizes]_vars

\* C31: a request with a header line of more than 2048 bytes, or with more
\* than 8192 bytes of header lines, is not delivered to the caller, and when
\* the driver is done with it it has answered 431; a request within both
\* limits is not rejected
C31_HeaderLimitsEnforced ==
    IF \/ \E i \in DOMAIN hp.sent : line_len(hp.sent[i]) > 2048
       \/ block_len(hp.sent) > 8192
    THEN ~hp.delivered /\ (hp.closed => hp.status = 431)
    ELSE ~hp.closed

\* C32: while the stream returned by upgrade for a request without
\* Connection: upgrade is alive, the driver ends the read of no further header
\* block and nothing is written to the connection but through that stream
C32_UpgradedStreamOwnsSocket ==
    [][\A k \in Requests :
          (req[k].st = "stream" /\ req'[k].st = "stream" /\ ~connection_upgrade(req[k].headers))
            => /\ nhead' = nhead
               /\ wire' # wire => wire'[Len(wire')].slot = req[k].w]_vars


(***************************************************************************)
(* util/sequential.rs: the write slots of a connection taken one by one.   *)
(***************************************************************************)
\* the chunks a step puts on the write stream
Appended == {i \in 1..Len(wire') : i > Len(wire)}

\* C33: at most one write slot of a connection is enabled for writing at a
\* time: every chunk put on the write stream belongs to a slot all of whose
\* earlier slots are dropped, also when its predecessor was dropped without
\* ever having written while a still earlier slot is live.
C33_OneWriterAtATime ==
    [][\A i \in Appended :
          \A j \in 1..(wire'[i].slot - 1) : wslot[j] = "dropped"]_vars

\* the chunks of the responses the driver writes for read errors
Rejections == {i \in 1..Len(wire) : wire[i].status \in {400, 408, 417}}

\* C34: the bytes of the error response (400, 408, 417) with which the driver
\* rejects request k come after the responses of all earlier requests, also
\* when those are unanswered when the error is detected: no chunk of an
\* earlier write slot follows a chunk of the error response.
C34_RejectionAfterEarlierResponses ==
    \A i \in Rejections :
        \A j \in 1..Len(wire) : j > i => wire[j].slot >= wire[i].slot


(***************************************************************************)
(* util/sequential.rs on its own: a chain of SequentialReaders and a chain *)
(* of SequentialWriters with the channels between neighbours.  rd[k] is    *)
(* the inner state of reader k ("Reading": its owner is in read(), blocked *)
(* in recv(); "Dropping": its owner is in drop(), blocked in recv()), rch  *)
(* [k] the readers waiting in the channel behind reader k; wr[k] is the    *)
(* trigger of writer k ("Some", "None"; "Writing": its owner is in write() *)
(* or flush(), blocked in recv()), wch[k] the signals in the channel       *)
(* behind writer k.  rres and wres are the results of the last I/O.        *)
(***************************************************************************)
MaxChain == 3

Chain == 1..MaxChain

UtOnly == UNCHANGED <<conn, fx, srv, rx, secure, mq, tp, acc, hp>>

SeqIdle ==
    [kind |-> "seq",
     rd |-> [k \in Chain |-> "unbuilt"], rch |-> [k \in Chain |-> 0],
     rres |-> [k \in Chain |-> "-"],
     wr |-> [k \in Chain |-> "unbuilt"], wch |-> [k \in Chain |-> 0],
     wres |-> [k \in Chain |-> "-"]]

IoResults == {"Ok", "Err"}

\* a drop that sends nothing to the successor
send_lost(ch, k) == ch

\* `self.next.send(reader).ok()`, `self.on_finish.send(()).ok()`
send(ch, k) == [ch EXCEPT ![k] = 1]

\* `recv.recv()` returns: the predecessor has sent
recv_returns(ch, k) == k > 1 /\ ch[k - 1] = 1

\* the channel once recv() has taken the message
received(ch, k) == [ch EXCEPT ![k - 1] = 0]

\* SequentialReaderBuilder::next
SqNextReader ==
    /\ \E k \in Chain :
          /\ ut.rd[k] = "unbuilt"
          /\ \A i \in 1..(k - 1) : ut.rd[i] # "unbuilt"
          /\ ut' = [ut EXCEPT !.rd[k] = IF k = 1 THEN "MyTurn" ELSE "Waiting"]
    /\ UtOnly

\* SequentialWriterBuilder::next (the two chains share nothing: the writers
\* are taken up once the readers are through)
SqNextWriter ==
    /\ \A k \in Chain : ut.rd[k] = "Empty"
    /\ \E k \in Chain :
          /\ ut.wr[k] = "unbuilt"
          /\ \A i \in 1..(k - 1) : ut.wr[i] # "unbuilt"
          /\ ut' = [ut EXCEPT !.wr[k] = IF k = 1 THEN "None" ELSE "Some"]
    /\ UtOnly

\* SequentialReader::read, MyTurn: the read goes to the stream at once
SqReadMyTurn(k, res) ==
    /\ ut.rd[k] = "MyTurn"
    /\ ut' = [ut EXCEPT !.rres[k] = res]
    /\ UtOnly

\* SequentialReader::read, Waiting: the call blocks in recv()
SqReadCall(k) ==
    /\ ut.rd[k] = "Waiting"
    /\ ut' = [ut EXCEPT !.rd[k] = "Reading"]
    /\ UtOnly

\* SequentialReader::read: recv() returns the reader, the read is done and
\* the reader kept as MyTurn whatever the result
SqReadRecv(k, res) ==
    /\ ut.rd[k] = "Reading"
    /\ recv_returns(ut.rch, k)
    /\ ut' = [ut EXCEPT !.rch = received(ut.rch, k), !.rd[k] = "MyTurn", !.rres[k] = res]
    /\ UtOnly

\* Drop for SequentialReader: MyTurn sends the reader on; Waiting blocks in recv()
SqDropReader(k) ==
    /\ ut.rd[k] \in {"MyTurn", "Waiting"}
    /\ ut' = IF ut.rd[k] = "MyTurn"
             THEN [ut EXCEPT !.rd[k] = "Empty", !.rch = send(ut.rch, k)]
             ELSE [ut EXCEPT !.rd[k] = "Dropping"]
    /\ UtOnly

\* Drop for SequentialReader, Waiting: recv() returns and the reader is sent on
SqDropRecv(k) ==
    /\ ut.rd[k] = "Dropping"
    /\ recv_returns(ut.rch, k)
    /\ ut' = [ut EXCEPT !.rd[k] = "Empty", !.rch = send(received(ut.rch, k), k)]
    /\ UtOnly

\* SequentialWriter::write or flush, the trigger being None
SqWriteNone(k, res) ==
    /\ ut.wr[k] = "None"
    /\ ut' = [ut EXCEPT !.wres[k] = res]
    /\ UtOnly

\* SequentialWriter::write or flush, the trigger being Some: the call blocks in recv()
SqWriteCall(k) ==
    /\ ut.wr[k] = "Some"
    /\ ut' = [ut EXCEPT !.wr[k] = "Writing"]
    /\ UtOnly

\* SequentialWriter::write or flush: recv() returns, the trigger becomes None
\* and the write is done
SqWriteRecv(k, res) ==
    /\ ut.wr[k] = "Writing"
    /\ recv_returns(ut.wch, k)
    /\ ut' = [ut EXCEPT !.wch = received(ut.wch, k), !.wr[k] = "None", !.wres[k] = res]
    /\ UtOnly

\* Drop for SequentialWriter
SqDropWriter(k) ==
    /\ ut.wr[k] \in {"Some", "None"}
    /\ ut' = [ut EXCEPT !.wr[k] = "dropped", !.wch = send(ut.wch, k)]
    /\ UtOnly

\* the steps in which a blocked recv() returns
SqRecv ==
    \E k \in Chain :
        \/ \E res \in IoResults : SqReadRecv(k, res) \/ SqWriteRecv(k, res)
        \/ SqDropRecv(k)

NextSequential ==
    \/ SqNextReader
    \/ SqNextWriter
    \/ \E k \in Chain :
        \/ \E res \in IoResults : SqReadMyTurn(k, res) \/ SqWriteNone(k, res)
        \/ SqReadCall(k)
        \/ SqDropReader(k)
        \/ SqWriteCall(k)
        \/ SqDropWriter(k)
    \/ SqRecv

InitSequential ==
    /\ ConnInit /\ fx = FxIdle /\ srv = SrvInit /\ rx = RxIdle
    /\ secure = FALSE /\ mq = MqIdle /\ tp = TpIdle /\ acc = AccIdle /\ hp = HpIdle
    /\ ut = SeqIdle

SpecSequential == InitSequential /\ [][NextSequential]_vars

\* a recv() whose message is in the channel returns
FairSequential == SpecSequential /\ WF_vars(SqRecv)

\* every slot before k has been dropped, its drop having returned
ReadersBeforeDropped(k) == \A i \in 1..(k - 1) : ut.rd[i] = "Empty"
WritersBeforeDropped(k) == \A i \in 1..(k - 1) : ut.wr[i] = "dropped"

\* C35: the drop of a read or write slot always releases its successor,
\* whether or not the slot did any I/O and whether or not its I/O failed: no
\* ordering signal is lost (a slot that still waits finds its predecessor's
\* message in the channel once every earlier slot is dropped), and the first
\* I/O of a slot all of whose predecessors are dropped is eventually done.
C35_DropReleasesSuccessor ==
    /\ [](\A k \in Chain :
            /\ (k > 1 /\ ReadersBeforeDropped(k)
                      /\ ut.rd[k] \in {"Waiting", "Reading", "Dropping"})
                  => ut.rch[k - 1] = 1
            /\ (k > 1 /\ WritersBeforeDropped(k) /\ ut.wr[k] \in {"Some", "Writing"})
                  => ut.wch[k - 1] = 1)
    /\ \A k \in Chain :
          /\ (ut.rd[k] = "Reading" /\ ReadersBeforeDropped(k)) ~> (ut.rres[k] # "-")
          /\ (ut.wr[k] = "Writing" /\ WritersBeforeDropped(k)) ~> (ut.wres[k] # "-")

\* the last reader and the last writer have done their first I/O after having
\* waited for it; a predecessor was dropped without any I/O, another after a
\* failed one
C35_Witness ==
    /\ ut.kind = "seq"
    /\ ut.rres[MaxChain] # "-" /\ ReadersBeforeDropped(MaxChain)
    /\ ut.wres[MaxChain] # "-" /\ WritersBeforeDropped(MaxChain)
    /\ \E i, j \in 1..(MaxChain - 1) : ut.rres[i] = "-" /\ ut.rres[j] = "Err"
    /\ \E i, j \in 1..(MaxChain - 1) : ut.wres[i] = "-" /\ ut.wres[j] = "Err"


(***************************************************************************)
(* A client that announces a body with Expect: 100-continue and keeps it   *)
(* back until it has seen a status line.                                   *)
(***************************************************************************)
WithheldShapes ==
    { Plain,
      Shape(<<1, 1>>, <<<<"Expect", "100-Continue">>,
                        <<"Content-Length", "2">>>>, 0, FALSE) }

\* the requests whose body the client has not sent in full
Withheld ==
    {k \in Requests : /\ req[k].st \in {"queued", "held"}
                      /\ req[k].data_reader.kind = "equal"
                      /\ ahead < req[k].data_reader.size
                      /\ ~ceof}

\* the client has seen a status line for its request: it sends the body
ClientBody ==
    /\ \E k \in Withheld :
          /\ \E i \in 1..Len(wire) : wire[i].slot = req[k].w
          /\ ahead' = req[k].data_reader.size
    /\ UNCHANGED <<pc, no_more_requests, nhead, ceof, rslot, wslot, nw, wire, req,
                   drv, fx, srv, rx, ext>>

\* the client gives up and closes its side without having sent the body
ClientCloses ==
    /\ Withheld # {}
    /\ ceof' = TRUE
    /\ UNCHANGED <<pc, no_more_requests, nhead, ahead, rslot, wslot, nw, wire, req,
                   drv, fx, srv, rx, ext>>

\* Request::respond, `self.data_reader = None`: Drop for EqualReader reads
\* what is left of the body, and its read blocks while the client sends nothing
RespondWaits(t, k) ==
    /\ Holds(t, k, "held")
    /\ ~drop_returns(req[k].data_reader, ahead, ceof)
    /\ req' = [req EXCEPT ![k].op = "drain"]
    /\ UNCHANGED <<pc, no_more_requests, nhead, ahead, ceof, rslot, wslot, nw, wire,
                   drv, fx, srv, rx, ext>>

\* the blocked read of Drop for EqualReader returns, and respond_impl goes on
\* to take the writer and print the response
Drained(k, response) ==
    /\ req[k].op = "drain"
    /\ ReleaseReader(k)
    /\ req' = [req EXCEPT ![k] =
                 [into_writer_impl(drop_data_reader(req[k])) EXCEPT
                    !.op = "respond",
                    !.todo = raw_print(req[k].w, response, FALSE)]]
    /\ UNCHANGED <<pc, no_more_requests, nhead, ceof, wslot, nw, wire, drv, fx, srv, rx, ext>>

NextWithheld ==
    \/ Driver(WithheldShapes, MaxBodyReq)
    \/ ClientBody
    \/ ClientCloses
    \/ \E t \in Threads :
        \/ Recv(t)
        \/ \E k \in Requests :
            \/ AsReader(t, k, 1)
            \/ RespondWaits(t, k)
            \/ \E response \in UserResponses : Respond(t, k, response)
    \/ \E k \in Requests :
        \/ Write(k)
        \/ \E response \in UserResponses : Drained(k, response)

SpecWithheld == Init /\ [][NextWithheld]_vars

\* C36: a request with Expect: 100-continue and a Content-Length above 0 that
\* the handler answers without having called as_reader gets no 100 Continue,
\* and its respond call does not wait for body bytes: the call is never
\* blocked in the drop of the body reader on bytes that the client, which has
\* seen no status line, has not sent.
C36_RespondWithoutBody ==
    \A k \in Requests :
        (req[k].as_reader_calls = 0 /\ req[k].st # "none")
            => /\ Written(req[k].w, 100, "head") = 0
               /\ ~(req[k].op = "drain" /\ k \in Withheld)


(***************************************************************************)
(* util/messages_queue.rs: the notification of a push and the consumers    *)
(* that wait with and without a time limit.                                *)
(***************************************************************************)
\* the consumers asleep in pop()
AsleepInPop == {c \in Threads : mq.cv[c] = "wait"}

\* C37: no wake-up is lost: a consumer of pop_timeout that a push has woken
\* does not return empty-handed while the pushed message is in the queue and
\* a consumer sleeps in pop() with no other woken consumer on its way, so
\* that a message pushed while a consumer is blocked in pop() is returned.
C37_NoLostWakeup ==
    [][\A c \in Threads :
          (mq.cv[c] = "twoken" /\ mq'.cv[c] = "idle" /\ mq'.queue = mq.queue)
              => (mq.queue = <<>> \/ AsleepInPop = {} \/ Woken(mq'.cv) # {})]_vars


(***************************************************************************)
(* util/equal_reader.rs: an EqualReader of `size` bytes over a stream of   *)
(* len bytes, pos of which have been consumed.  out lists the bytes the    *)
(* reader has yielded, by their place in the stream; buf and last are the  *)
(* buffer length and the result of the last read.                          *)
(***************************************************************************)
MaxEqual == 3

EqBufs == 1..(MaxEqual + 1)

EqIdle(n, len) ==
    [kind |-> "equal", n |-> n, len |-> len, pos |-> 0, size |-> n, out |-> <<>>,
     buf |-> 0, last |-> -1, dropped |-> FALSE]

\* the lengths a read of the underlying stream can return: 0 at its end, and
\* otherwise at least one byte and no more than the buffer or the stream holds
source_read(avail, buflen) ==
    IF avail = 0 \/ buflen = 0 THEN {0} ELSE 1..Min(avail, buflen)

\* an EqualReader that hands the caller's whole buffer to the stream
whole_buf(buflen, size) == buflen

\* Read for EqualReader: the length of the slice of buf given to the stream
limited_buf(buflen, size) == IF buflen < size THEN buflen ELSE size

\* the bytes at pos + 1 .. pos + len of the stream
stream_bytes(pos, len) == [i \in 1..len |-> pos + i]

\* Read for EqualReader
EqRead(buflen) ==
    /\ ut.kind = "equal" /\ ~ut.dropped
    /\ IF ut.size = 0
       THEN ut' = [ut EXCEPT !.buf = buflen, !.last = 0]
       ELSE \E len \in source_read(ut.len - ut.pos, limited_buf(buflen, ut.size)) :
               ut' = [ut EXCEPT !.pos = @ + len, !.size = @ - len,
                                !.out = @ \o stream_bytes(ut.pos, len),
                                !.buf = buflen, !.last = len]
    /\ UtOnly

\* Drop for EqualReader: the bytes its loop consumes, whatever the lengths of
\* its reads; a read of 0 ends it
RECURSIVE drop_consumes(_, _)
drop_consumes(remaining_to_read, avail) ==
    IF remaining_to_read <= 0 THEN {0}
    ELSE UNION { IF other = 0 THEN {0}
                 ELSE {other + c : c \in drop_consumes(remaining_to_read - other,
                                                       avail - other)} :
                 other \in source_read(avail, remaining_to_read) }

\* Drop for EqualReader
EqDrop ==
    /\ ut.kind = "equal" /\ ~ut.dropped
    /\ \E c \in drop_consumes(ut.size, ut.len - ut.pos) :
          ut' = [ut EXCEPT !.pos = @ + c, !.dropped = TRUE]
    /\ UtOnly

NextEqualReader == (\E buflen \in EqBufs : EqRead(buflen)) \/ EqDrop

\* a stream that holds at least the n bytes of the reader
InitEqualReader ==
    /\ ConnInit /\ fx = FxIdle /\ srv = SrvInit /\ rx = RxIdle
    /\ secure = FALSE /\ mq = MqIdle /\ tp = TpIdle /\ acc = AccIdle /\ hp = HpIdle
    /\ \E n \in 0..MaxEqual : \E more \in 0..MaxEqual : ut = EqIdle(n, n + more)

SpecEqualReader == InitEqualReader /\ [][NextEqualReader]_vars

\* C38: an EqualReader of n bytes over a stream that holds at least n yields
\* the next n bytes of the stream, in order and no more, and a read returns 0
\* only once all n have been yielded; after its drop exactly n bytes of the
\* stream have been consumed, however many the caller read.
C38_EqualReaderTakesExactlyN ==
    /\ \A i \in DOMAIN ut.out : ut.out[i] = i
    /\ Len(ut.out) + ut.size = ut.n
    /\ ~ut.dropped => ut.pos = Len(ut.out)
    /\ ut.last = 0 => Len(ut.out) = ut.n
    /\ ut.dropped => ut.pos = ut.n

\* the caller read some of the bytes, not all, and the reader was dropped over
\* a stream that goes on after its bytes
C38_Witness ==
    /\ ut.kind = "equal" /\ ut.dropped
    /\ Len(ut.out) > 0 /\ Len(ut.out) < ut.n
    /\ ut.len > ut.n


(***************************************************************************)
(* Where the parser of the next request starts.  In the workloads below    *)
(* the client sends nothing between the body of a request and the header   *)
(* block of the next, so that `ahead` counts bytes of a body that nobody   *)
(* has read.                                                               *)
(***************************************************************************)
\* C39: whatever the framing of the body (none, Content-Length, chunked) and
\* however much of it the handler read, the header block of the next request
\* is parsed from the first byte after the body: every step in which a read
\* of a header block ends is taken with no body byte left unread.
C39_ParserStartsAfterBody ==
    [][(pc = "read" /\ pc' # "read") => ahead = 0]_vars


(***************************************************************************)
(* response.rs: respond with a Response whose reader yields fewer or more  *)
(* bytes than the data_length it was built with.                           *)
(***************************************************************************)
MaxSource == 3

InitBodyLength ==
    /\ ConnInit /\ fx = FxIdle /\ srv = SrvInit /\ ExtIdle
    /\ \E method \in {"GET", "HEAD"} : \E http_version \in {<<1, 0>>, <<1, 1>>} :
       \E headers \in {<<>>, <<TEChunked>>} : \E status_code \in {200, 204} :
       \E data \in 0..MaxSource : \E data_length \in {None} \cup {Some(l) : l \in 0..MaxSource} :
          rx = [RxIdle EXCEPT !.method = method, !.http_version = http_version,
                              !.headers = headers,
                              !.response = Response_new(status_code, <<>>, data, data_length)]

NextBodyLength == RxRespond("Ok", "Ok")

SpecBodyLength == InitBodyLength /\ [][NextBodyLength]_vars

\* the bytes of the body of a written message
RECURSIVE body_len(_)
body_len(parts) == IF parts = <<>> THEN 0 ELSE Head(parts).len + body_len(Tail(parts))

\* C40: with the identity encoding and a body that is not suppressed, the
\* body bytes written after the header block are as many as the emitted
\* Content-Length says, whatever the reader of the Response yields: a longer
\* source is cut to the length and a shorter one does not leave the response
\* short.
C40_BodyMatchesContentLength ==
    (/\ is_some(rx.written)
     /\ rx.encoding = Some(Identity)
     /\ rx.method # "HEAD"
     /\ ~must_not_include_body(rx.response.status_code))
        => body_len(unwrap(rx.written).body)
             = unwrap(find(unwrap(rx.written).headers, "Content-Length"))

====
